---------------------------- MODULE Spec2Model ----------------------------
(***************************************************************************)
(* A model of the MIB data-provider layer of snmp-linux-lib (src/core.js): *)
(* the interface index registry, the interface-table accessors, the SNMP   *)
(* numeric policy applied to the per-interface kernel files, and the       *)
(* hexToIp4 helper.                                                        *)
(*                                                                         *)
(* JavaScript values are modelled as follows.                              *)
(*  - A string is a sequence of one-character strings (a "text"), except   *)
(*    for interface names and file names, which are only compared and are  *)
(*    kept as TLA+ strings.                                                *)
(*  - A Number read from a kernel file is a record [nan, neg, mag] where   *)
(*    mag is a little-endian sequence of NLimbs limbs in base 2^16: the    *)
(*    model checker's integers are 32 bits wide and the program's          *)
(*    arithmetic is about 2^32.  All inputs stay below 2^53, where         *)
(*    JavaScript's Number arithmetic on integers is exact.                 *)
(***************************************************************************)
EXTENDS Integers, Sequences, FiniteSets, TLC

(***************************************************************************)
(* Generic helpers on sequences.                                           *)
(***************************************************************************)
Range(s) == { s[i] : i \in DOMAIN s }

Reverse(s) == [ i \in 1..Len(s) |-> s[Len(s) + 1 - i] ]

(***************************************************************************)
(* Texts.                                                                  *)
(***************************************************************************)
DecDigits == <<"0", "1", "2", "3", "4", "5", "6", "7", "8", "9">>

HexDigitsUpper ==
  <<"0", "1", "2", "3", "4", "5", "6", "7", "8", "9", "A", "B", "C", "D", "E", "F">>

HexDigitsLower ==
  <<"0", "1", "2", "3", "4", "5", "6", "7", "8", "9", "a", "b", "c", "d", "e", "f">>

WhiteSpace == { " ", "\n", "\t" }

IsDecDigit(c) == c \in Range(DecDigits)

DecDigitValue(c) == (CHOOSE i \in DOMAIN DecDigits : DecDigits[i] = c) - 1

IsHexDigit(c) == c \in Range(HexDigitsUpper) \cup Range(HexDigitsLower)

HexDigitValue(c) ==
  IF c \in Range(HexDigitsUpper)
    THEN (CHOOSE i \in DOMAIN HexDigitsUpper : HexDigitsUpper[i] = c) - 1
    ELSE (CHOOSE i \in DOMAIN HexDigitsLower : HexDigitsLower[i] = c) - 1

\* String.prototype.trim
RECURSIVE TrimLeft(_)
TrimLeft(t) ==
  IF t # <<>> /\ Head(t) \in WhiteSpace THEN TrimLeft(Tail(t)) ELSE t

Trim(t) == Reverse(TrimLeft(Reverse(TrimLeft(t))))

\* Array.prototype.join on an array of texts
RECURSIVE Join(_, _)
Join(parts, sep) ==
  IF parts = <<>> THEN <<>>
  ELSE IF Len(parts) = 1 THEN parts[1]
  ELSE parts[1] \o sep \o Join(Tail(parts), sep)

(***************************************************************************)
(* Numbers wider than the checker's integers: limbs in base 2^16.          *)
(***************************************************************************)
LimbBase == 256 * 256

NLimbs == 4

Limbs == 1..NLimbs

MagZero == [ i \in Limbs |-> 0 ]

\* The magnitude of a small natural number k < LimbBase^2 / 16.
MagOfSmall(k) ==
  [ i \in Limbs |-> IF i = 1 THEN k % LimbBase
                    ELSE IF i = 2 THEN k \div LimbBase ELSE 0 ]

\* carry into limb i of the limb-wise sums f[1..i-1]
RECURSIVE CarryInto(_, _)
CarryInto(f, i) ==
  IF i = 1 THEN 0 ELSE (f[i - 1] + CarryInto(f, i - 1)) \div LimbBase

\* Normalise limb-wise values (each below 2^31 - 2^16) into limbs.
MagNormalise(f) == [ i \in Limbs |-> (f[i] + CarryInto(f, i)) % LimbBase ]

MagAdd(a, b) == MagNormalise([ i \in Limbs |-> a[i] + b[i] ])

\* a * k + d for small k and d (decimal parsing uses k = 10)
MagMulAdd(a, k, d) ==
  MagNormalise([ i \in Limbs |-> a[i] * k + (IF i = 1 THEN d ELSE 0) ])

\* the most significant limb where a and b differ, 0 if none
MagTopDiff(a, b) ==
  IF a = b THEN 0
  ELSE CHOOSE i \in Limbs : a[i] # b[i] /\ \A j \in Limbs : j > i => a[j] = b[j]

MagLess(a, b) == a # b /\ a[MagTopDiff(a, b)] < b[MagTopDiff(a, b)]

\* borrow out of limbs 1..i-1 when subtracting b from a
RECURSIVE BorrowInto(_, _, _)
BorrowInto(a, b, i) ==
  IF i = 1 THEN 0
  ELSE IF a[i - 1] - b[i - 1] - BorrowInto(a, b, i - 1) < 0 THEN 1 ELSE 0

\* a - b, for a >= b
MagSub(a, b) ==
  [ i \in Limbs |-> (a[i] - b[i] - BorrowInto(a, b, i) + LimbBase) % LimbBase ]

(***************************************************************************)
(* JavaScript Numbers (integers and NaN).                                  *)
(***************************************************************************)
NaN == [ nan |-> TRUE, neg |-> FALSE, mag |-> MagZero ]

MkNum(neg, mag) == [ nan |-> FALSE, neg |-> neg /\ mag # MagZero, mag |-> mag ]

NumOfSmall(k) == MkNum(FALSE, MagOfSmall(k))

NumZero == NumOfSmall(0)

NumNeg(x) == IF x.nan THEN NaN ELSE MkNum(~x.neg, x.mag)

\* x + y
NumAdd(x, y) ==
  IF x.nan \/ y.nan THEN NaN
  ELSE IF x.neg = y.neg THEN MkNum(x.neg, MagAdd(x.mag, y.mag))
  ELSE IF MagLess(x.mag, y.mag) THEN MkNum(y.neg, MagSub(y.mag, x.mag))
  ELSE MkNum(x.neg, MagSub(x.mag, y.mag))

\* x - y
NumSub(x, y) == NumAdd(x, NumNeg(y))

\* x < y (false when either is NaN)
NumLess(x, y) ==
  /\ ~x.nan /\ ~y.nan
  /\ IF x.neg # y.neg THEN x.neg
     ELSE IF x.neg THEN MagLess(y.mag, x.mag) ELSE MagLess(x.mag, y.mag)

\* The remainder operator x % m for a modulus that is a power of the limb
\* base: the result has the sign of the dividend, as in JavaScript.
NumRem(x, m) ==
  LET k == CHOOSE i \in Limbs : m.mag[i] # 0
  IN  IF x.nan \/ m.nan THEN NaN
      ELSE MkNum(x.neg, [ i \in Limbs |-> IF i < k THEN x.mag[i] ELSE 0 ])

\* Math.min with two arguments, and with a single argument
MathMin2(x, y) ==
  IF x.nan \/ y.nan THEN NaN ELSE IF NumLess(y, x) THEN y ELSE x

MathMin1(x) == x

\* The unary plus applied to a trimmed text: the empty text is 0, an
\* optionally signed run of decimal digits is its value, anything else NaN.
RECURSIVE MagOfDigits(_, _)
MagOfDigits(t, acc) ==
  IF t = <<>> THEN acc
  ELSE MagOfDigits(Tail(t), MagMulAdd(acc, 10, DecDigitValue(Head(t))))

ToNumber(t) ==
  LET signed == t # <<>> /\ Head(t) \in { "-", "+" }
      digits == IF signed THEN Tail(t) ELSE t
  IN  IF t = <<>> THEN NumZero
      ELSE IF digits = <<>> \/ \E i \in DOMAIN digits : ~IsDecDigit(digits[i])
        THEN NaN
      ELSE MkNum(signed /\ Head(t) = "-", MagOfDigits(digits, MagZero))

(***************************************************************************)
(* Program constants (src/core.js:22-23) and the literal 4294967295 that   *)
(* ifSpeed substitutes.                                                    *)
(***************************************************************************)
\* 0x100000000
COUNTER_WRAP_AT == MkNum(FALSE, [ i \in Limbs |-> IF i = 3 THEN 1 ELSE 0 ])

\* 0xffffffff
GAUGE_MAX == MkNum(FALSE, [ i \in Limbs |-> IF i <= 2 THEN LimbBase - 1 ELSE 0 ])

SpeedUnavailable == ToNumber(<<"4", "2", "9", "4", "9", "6", "7", "2", "9", "5">>)

(***************************************************************************)
(* Promise outcomes.                                                       *)
(***************************************************************************)
Fulfilled(v) == [ status |-> "fulfilled", value |-> v ]

Rejected(e) == [ status |-> "rejected", value |-> e ]

Pending == [ status |-> "pending", value |-> <<>> ]

(***************************************************************************)
(* More text helpers used by the per-interface readers.                    *)
(***************************************************************************)
UpperLetters ==
  <<"A", "B", "C", "D", "E", "F", "G", "H", "I", "J", "K", "L", "M",
    "N", "O", "P", "Q", "R", "S", "T", "U", "V", "W", "X", "Y", "Z">>

LowerLetters ==
  <<"a", "b", "c", "d", "e", "f", "g", "h", "i", "j", "k", "l", "m",
    "n", "o", "p", "q", "r", "s", "t", "u", "v", "w", "x", "y", "z">>

\* String.prototype.toLowerCase
ToLowerCase(t) ==
  [ i \in DOMAIN t |->
      IF t[i] \in Range(UpperLetters)
        THEN LowerLetters[CHOOSE k \in DOMAIN UpperLetters : UpperLetters[k] = t[i]]
        ELSE t[i] ]

\* String.prototype.substr(start, length) with a 0-based start >= 0
Substr(t, start, len) ==
  SubSeq(t, start + 1, IF start + len > Len(t) THEN Len(t) ELSE start + len)

\* String.prototype.substr(-n): the last n characters
SubstrLast(t, n) == IF Len(t) <= n THEN t ELSE SubSeq(t, Len(t) - n + 1, Len(t))

\* t.replace(pat, <<>>) for a text pattern: the first occurrence is removed
RemoveFirst(t, pat) ==
  LET hits == { i \in 1..(Len(t) - Len(pat) + 1) : SubSeq(t, i, i + Len(pat) - 1) = pat }
  IN  IF hits = {} THEN t
      ELSE LET i == CHOOSE h \in hits : \A g \in hits : h <= g
           IN  SubSeq(t, 1, i - 1) \o SubSeq(t, i + Len(pat), Len(t))

\* String.prototype.split on a one-character separator
RECURSIVE Split(_, _)
Split(t, sep) ==
  LET hits == { i \in DOMAIN t : t[i] = sep }
  IN  IF hits = {} THEN <<t>>
      ELSE LET i == CHOOSE h \in hits : \A g \in hits : h <= g
           IN  <<SubSeq(t, 1, i - 1)>> \o Split(SubSeq(t, i + 1, Len(t)), sep)

\* parseInt(t, 16) for a text without sign, blanks or 0x prefix: the value of
\* the longest prefix of hexadecimal digits; NaN, written -1 here, when that
\* prefix is empty.
RECURSIVE HexPrefixValue(_, _)
HexPrefixValue(t, acc) ==
  IF t = <<>> \/ ~IsHexDigit(Head(t)) THEN acc
  ELSE HexPrefixValue(Tail(t), acc * 16 + HexDigitValue(Head(t)))

ParseInt16(t) ==
  IF t = <<>> \/ ~IsHexDigit(Head(t)) THEN -1 ELSE HexPrefixValue(t, 0)

\* The decimal text of a small number, as Array.prototype.join and template
\* literals produce it ("NaN" for NaN).
RECURSIVE DecText(_)
DecText(n) ==
  IF n < 0 THEN <<"N", "a", "N">>
  ELSE IF n < 10 THEN <<DecDigits[n + 1]>>
  ELSE DecText(n \div 10) \o <<DecDigits[(n % 10) + 1]>>

(***************************************************************************)
(* The identity fields of the SnmpLinuxLib object (src/core.js:26-211).    *)
(***************************************************************************)
Undefined == "undefined"

\* the constructor (src/core.js:29-52); startTime is left out
Constructor(sysDescr, sysObjectID, sysContact, sysName, sysLocation, sysServices) ==
  [ sysDescr |-> sysDescr, sysObjectID |-> sysObjectID, sysContact |-> sysContact,
    sysName |-> sysName, sysLocation |-> sysLocation, sysServices |-> sysServices,
    sysObjectId |-> Undefined ]

setSysDescr(c, sysDescr) == [ c EXCEPT !.sysDescr = sysDescr ]

\* the property written is sysObjectId, which the constructor does not set
setSysObjectId(c, sysObjectId) == [ c EXCEPT !.sysObjectId = sysObjectId ]

setSysContact(c, value) == [ c EXCEPT !.sysContact = value ]

\* a setter that writes a second field too
setSysNameAndLocation(c, value) == [ c EXCEPT !.sysName = value, !.sysLocation = value ]

setSysName(c, value) == [ c EXCEPT !.sysName = value ]

setSysLocation(c, value) == [ c EXCEPT !.sysLocation = value ]

setSysServices(c, sysServices) == [ c EXCEPT !.sysServices = sysServices ]

getSysDescr(c) == Fulfilled(c.sysDescr)

getSysObjectID(c) == Fulfilled(c.sysObjectID)

getSysContact(c) == Fulfilled(c.sysContact)

getSysName(c) == Fulfilled(c.sysName)

getSysLocation(c) == Fulfilled(c.sysLocation)

getSysServices(c) == Fulfilled(c.sysServices)

(***************************************************************************)
(* getNetSnmpInfo4 (src/core.js:2683-2760): the parser of /proc/net/snmp.  *)
(***************************************************************************)
\* the text after the blanks a text starts with: what " *" of a pattern eats
RECURSIVE SkipSpaces(_)
SkipSpaces(t) == IF t # <<>> /\ Head(t) = " " THEN SkipSpaces(Tail(t)) ELSE t

\* line.split(/: */)
RECURSIVE SplitColonSpaces(_)
SplitColonSpaces(t) ==
  LET hits == { i \in DOMAIN t : t[i] = ":" }
  IN  IF hits = {} THEN <<t>>
      ELSE LET i == CHOOSE h \in hits : \A g \in hits : h <= g
           IN  <<SubSeq(t, 1, i - 1)>> \o
               SplitColonSpaces(SkipSpaces(SubSeq(t, i + 1, Len(t))))

\* obj[key] = v on an object given as the function of its own properties
SetProperty(obj, key, v) ==
  [ k \in DOMAIN obj \cup { key } |-> IF k = key THEN v ELSE obj[k] ]

EmptyObject == [ k \in {} |-> <<>> ]

\* the fields all bound to the first value
FillFieldsFirstValue(obj, fieldNames, fieldValues, i) ==
  [ k \in DOMAIN obj \cup Range(fieldNames) |-> fieldValues[1] ]

\* fieldNames.forEach((name, i) => { info[heading][name] = fieldValues[i]; })
\* on info[heading] = {}, from position i on
RECURSIVE FillFields(_, _, _, _)
FillFields(obj, fieldNames, fieldValues, i) ==
  IF i > Len(fieldNames) THEN obj
  ELSE FillFields(SetProperty(obj, fieldNames[i], fieldValues[i]),
                  fieldNames, fieldValues, i + 1)

\* The state of the forEach over the lines: the variables of the closure
\* and the exception thrown, if any.
SnmpStart ==
  [ heading |-> <<>>, fieldNames |-> <<>>, info |-> EmptyObject,
    bDefinition |-> TRUE, thrown |-> "" ]

\* the callback of lines.forEach applied to one line (src/core.js:2697-2756)
SnmpLine(st, rawLine) ==
  LET line == Trim(rawLine)
      parts == SplitColonSpaces(line)
  IN  IF Len(line) = 0 THEN st
      ELSE IF st.bDefinition
        THEN IF Len(parts) < 2
               THEN [ st EXCEPT !.thrown = "TypeError" ]   \* undefined.split
               ELSE [ st EXCEPT !.heading = parts[1],
                                !.fieldNames = Split(parts[2], " "),
                                !.bDefinition = FALSE ]
        ELSE IF parts[1] # st.heading
               THEN [ st EXCEPT !.thrown = "Unexpected heading" ]
        ELSE IF Len(parts) < 2
               THEN [ st EXCEPT !.thrown = "TypeError" ]   \* undefined.split
        ELSE LET fieldValues == Split(parts[2], " ")
             IN  IF Len(fieldValues) # Len(st.fieldNames)
                   THEN [ st EXCEPT !.thrown = "Number of field names does not match" ]
                   ELSE [ st EXCEPT
                            !.info = SetProperty(st.info, st.heading,
                                       FillFields(EmptyObject, st.fieldNames,
                                                  fieldValues, 1)),
                            !.bDefinition = TRUE ]

\* lines.forEach(...), which an exception leaves
RECURSIVE SnmpLines(_, _)
SnmpLines(st, lines) ==
  IF lines = <<>> \/ st.thrown # "" THEN st
  ELSE SnmpLines(SnmpLine(st, Head(lines)), Tail(lines))

\* getNetSnmpInfo4 given what reading /proc/net/snmp yields
getNetSnmpInfo4(file) ==
  IF ~file.ok THEN Rejected([ err |-> "readFile", what |-> "/proc/net/snmp" ])
  ELSE LET st == SnmpLines(SnmpStart, Split(file.text, "\n"))
       IN  IF st.thrown # "" THEN Rejected(st.thrown) ELSE Fulfilled(st.info)

(***************************************************************************)
(* The ICMP counter accessors getIcmp<Field> (src/core.js:1456-1718).      *)
(***************************************************************************)
IcmpText == <<"I", "c", "m", "p">>

\* the fields that have an accessor getIcmp<Field>
IcmpFields ==
  { <<"I", "n", "M", "s", "g", "s">>,
    <<"I", "n", "E", "r", "r", "o", "r", "s">>,
    <<"I", "n", "D", "e", "s", "t", "U", "n", "r", "e", "a", "c", "h", "s">>,
    <<"I", "n", "T", "i", "m", "e", "E", "x", "c", "d", "s">>,
    <<"I", "n", "P", "a", "r", "m", "P", "r", "o", "b", "s">>,
    <<"I", "n", "S", "r", "c", "Q", "u", "e", "n", "c", "h", "s">>,
    <<"I", "n", "R", "e", "d", "i", "r", "e", "c", "t", "s">>,
    <<"I", "n", "E", "c", "h", "o", "s">>,
    <<"I", "n", "E", "c", "h", "o", "R", "e", "p", "s">>,
    <<"I", "n", "T", "i", "m", "e", "s", "t", "a", "m", "p", "s">>,
    <<"I", "n", "T", "i", "m", "e", "s", "t", "a", "m", "p", "R", "e", "p", "s">>,
    <<"I", "n", "A", "d", "d", "r", "M", "a", "s", "k", "s">>,
    <<"I", "n", "A", "d", "d", "r", "M", "a", "s", "k", "R", "e", "p", "s">>,
    <<"O", "u", "t", "M", "s", "g", "s">>,
    <<"O", "u", "t", "E", "r", "r", "o", "r", "s">>,
    <<"O", "u", "t", "D", "e", "s", "t", "U", "n", "r", "e", "a", "c", "h", "s">>,
    <<"O", "u", "t", "T", "i", "m", "e", "E", "x", "c", "d", "s">>,
    <<"O", "u", "t", "P", "a", "r", "m", "P", "r", "o", "b", "s">>,
    <<"O", "u", "t", "S", "r", "c", "Q", "u", "e", "n", "c", "h", "s">>,
    <<"O", "u", "t", "R", "e", "d", "i", "r", "e", "c", "t", "s">>,
    <<"O", "u", "t", "E", "c", "h", "o", "s">>,
    <<"O", "u", "t", "E", "c", "h", "o", "R", "e", "p", "s">>,
    <<"O", "u", "t", "T", "i", "m", "e", "s", "t", "a", "m", "p", "s">>,
    <<"O", "u", "t", "T", "i", "m", "e", "s", "t", "a", "m", "p", "R", "e", "p", "s">>,
    <<"O", "u", "t", "A", "d", "d", "r", "M", "a", "s", "k", "s">>,
    <<"O", "u", "t", "A", "d", "d", "r", "M", "a", "s", "k", "R", "e", "p", "s">> }

\* the property of info.Icmp the accessor of a field reads: the field's name,
\* but with a small first letter in getIcmpInAddrMasks and
\* getIcmpInAddrMaskReps (src/core.js:1571, 1581)
IcmpPropertyRead(field) ==
  IF field \in { <<"I", "n", "A", "d", "d", "r", "M", "a", "s", "k", "s">>,
                 <<"I", "n", "A", "d", "d", "r", "M", "a", "s", "k", "R", "e", "p", "s">> }
    THEN << "i" >> \o Tail(field)
    ELSE field

\* getIcmp<Field> given the outcome of getNetSnmpInfo4:
\* +info.Icmp.<property> % COUNTER_WRAP_AT
getIcmp(field, info) ==
  IF info.status = "rejected" THEN info
  ELSE IF IcmpText \notin DOMAIN info.value THEN Rejected("TypeError")
  ELSE LET group == info.value[IcmpText]
           key == IcmpPropertyRead(field)
       IN  Fulfilled(NumRem(IF key \in DOMAIN group THEN ToNumber(group[key]) ELSE NaN,
                            COUNTER_WRAP_AT))

(***************************************************************************)
(* hexToIp4 (src/core.js:2835-2853).                                       *)
(***************************************************************************)
\* hexToIp4 with the octets pushed instead of unshifted: their order is kept.
hexToIp4NoReverse(hex) ==
  LET padded == SubstrLast(<<"0", "0", "0", "0", "0", "0", "0", "0">> \o hex, 8)
      ip == << Substr(padded, 0, 2), Substr(padded, 2, 2),
               Substr(padded, 4, 2), Substr(padded, 6, 2) >>
      nums == [ i \in DOMAIN ip |-> ParseInt16(ip[i]) ]
  IN  Join([ i \in DOMAIN nums |-> DecText(nums[i]) ], <<".">>)

hexToIp4(hex) ==
  LET padded == SubstrLast(<<"0", "0", "0", "0", "0", "0", "0", "0">> \o hex, 8)
      \* four unshifts: the last octet ends up first
      ip == << Substr(padded, 6, 2), Substr(padded, 4, 2),
               Substr(padded, 2, 2), Substr(padded, 0, 2) >>
      nums == [ i \in DOMAIN ip |-> ParseInt16(ip[i]) ]
  IN  Join([ i \in DOMAIN nums |-> DecText(nums[i]) ], <<".">>)

(***************************************************************************)
(* getTcpConns4 and getUdpListeners4 (src/core.js:2925-3134): the parsers  *)
(* of /proc/net/tcp and /proc/net/udp and the reverse lookups.             *)
(***************************************************************************)
\* line.replace(/^[^:]*: *(.*)/, "$1"): the entry number, its colon and the
\* blanks after it are dropped; a line without colon stays as it is
StripEntryNumber(line) ==
  LET hits == { i \in DOMAIN line : line[i] = ":" }
  IN  IF hits = {} THEN line
      ELSE LET i == CHOOSE h \in hits : \A g \in hits : h <= g
           IN  SkipSpaces(SubSeq(line, i + 1, Len(line)))

\* the text after the white space a text starts with
RECURSIVE SkipWhiteSpace(_)
SkipWhiteSpace(t) ==
  IF t # <<>> /\ Head(t) \in WhiteSpace THEN SkipWhiteSpace(Tail(t)) ELSE t

\* line.split(/\s+/g)
RECURSIVE SplitWhiteSpace(_)
SplitWhiteSpace(t) ==
  LET hits == { i \in DOMAIN t : t[i] \in WhiteSpace }
  IN  IF hits = {} THEN <<t>>
      ELSE LET i == CHOOSE h \in hits : \A g \in hits : h <= g
           IN  <<SubSeq(t, 1, i - 1)>> \o
               SplitWhiteSpace(SkipWhiteSpace(SubSeq(t, i + 1, Len(t))))

\* parseInt(port, 16) of the second piece of an address:port field, NaN
\* (-1) when the field has no colon
PortOf(pieces) == IF Len(pieces) < 2 THEN -1 ELSE ParseInt16(pieces[2])

\* TcpConnEntry_CONNECTION_STATE (src/core.js:2660-2674)
TcpConnEntry_CONNECTION_STATE ==
  [ Closed |-> 1, Listen |-> 2, SynSent |-> 3, SynReceived |-> 4,
    Established |-> 5, FinWait1 |-> 6, FinWait2 |-> 7, CloseWait |-> 8,
    LastAck |-> 9, Closing |-> 10, TimeWait |-> 11, NewSynReceived |-> 99 ]

\* linuxToRfc1213ConnStateMap (src/core.js:2943-2958), by kernel state
linuxToRfc1213ConnStateMap ==
  LET ConnState == TcpConnEntry_CONNECTION_STATE
  IN  << ConnState.Established, ConnState.SynSent, ConnState.SynReceived,
         ConnState.FinWait1, ConnState.FinWait2, ConnState.TimeWait,
         ConnState.Closed, ConnState.CloseWait, ConnState.LastAck,
         ConnState.Listen, ConnState.Closing, ConnState.NewSynReceived >>

\* the state looked up with the field read as a decimal numeral
ConnStateOfDecimal(fields) ==
  LET code == IF Len(fields) < 3 \/ fields[3] = <<>>
                   \/ \E i \in DOMAIN fields[3] : ~IsDecDigit(fields[3][i])
                THEN -1
                ELSE IF Len(fields[3]) = 1 THEN DecDigitValue(fields[3][1])
                ELSE 10 * DecDigitValue(fields[3][Len(fields[3]) - 1])
                     + DecDigitValue(fields[3][Len(fields[3])])
  IN  IF code \in DOMAIN linuxToRfc1213ConnStateMap
        THEN [ kind |-> "number", n |-> linuxToRfc1213ConnStateMap[code] ]
        ELSE [ kind |-> "undefined", n |-> 0 ]

\* linuxToRfc1213ConnStateMap[parseInt(fields.shift(), 16)] (src/core.js:2990):
\* undefined for a number that is no key of the map, NaN included
ConnStateOf(fields) ==
  LET code == IF Len(fields) < 3 THEN -1 ELSE ParseInt16(fields[3])
  IN  IF code \in DOMAIN linuxToRfc1213ConnStateMap
        THEN [ kind |-> "number", n |-> linuxToRfc1213ConnStateMap[code] ]
        ELSE [ kind |-> "undefined", n |-> 0 ]

\* The callback of lines.forEach of getTcpConns4 for a line that is not
\* skipped (src/core.js:2972-2995): the entry pushed, or the TypeError of
\* undefined.split for a line with one field only.
TcpEntry(rawLine) ==
  LET fields == SplitWhiteSpace(StripEntryNumber(rawLine))
  IN  IF Len(fields) < 2 THEN [ thrown |-> TRUE, entry |-> <<>> ]
      ELSE [ thrown |-> FALSE,
             entry |->
               [ tcpConnLocalAddress |-> hexToIp4(Split(fields[1], ":")[1]),
                 tcpConnLocalPort |-> PortOf(Split(fields[1], ":")),
                 tcpConnRemAddress |-> hexToIp4(Split(fields[2], ":")[1]),
                 tcpConnRemPort |-> PortOf(Split(fields[2], ":")),
                 tcpConnState |-> ConnStateOf(fields) ] ]

\* the same of getUdpListeners4 (src/core.js:3075-3091)
UdpEntry(rawLine) ==
  LET fields == SplitWhiteSpace(StripEntryNumber(rawLine))
  IN  IF Len(fields) < 2 THEN [ thrown |-> TRUE, entry |-> <<>> ]
      ELSE [ thrown |-> FALSE,
             entry |->
               [ udpLocalAddress |-> hexToIp4(Split(fields[1], ":")[1]),
                 udpLocalPort |-> PortOf(Split(fields[1], ":")),
                 udpRemAddress |-> hexToIp4(Split(fields[2], ":")[1]),
                 udpRemPort |-> PortOf(Split(fields[2], ":")) ] ]

\* lines.forEach((line, i) => ...) from line i on: the first line and the
\* empty lines are skipped (src/core.js:2931-2998, 3051-3094)
RECURSIVE ConnLines(_, _, _, _)
ConnLines(lines, i, conns, proto) ==
  IF i > Len(lines) THEN Fulfilled(conns)
  ELSE IF i = 1 \/ Len(lines[i]) = 0 THEN ConnLines(lines, i + 1, conns, proto)
  ELSE LET e == IF proto = "tcp" THEN TcpEntry(lines[i]) ELSE UdpEntry(lines[i])
       IN  IF e.thrown THEN Rejected("TypeError")
           ELSE ConnLines(lines, i + 1, Append(conns, e.entry), proto)

\* the first two callbacks of getTcpConns4 ("tcp") and getUdpListeners4
\* ("udp"), given what reading /proc/net/<proto> yields
ParseConns(file, proto) ==
  IF ~file.ok THEN Rejected([ err |-> "readFile", what |-> proto ])
  ELSE ConnLines(Split(file.text, "\n"), 1, <<>>, proto)

\* Promise.all(promises).then(() => conns): one failed lookup rejects
AllResolved(conns, lookups) ==
  IF \E i \in DOMAIN lookups : lookups[i] = "rejected"
    THEN Rejected("reverse") ELSE Fulfilled(conns)

\* Promise.allSettled(promises).then(() => conns) once every lookup has
\* settled (src/core.js:3032-3033, 3131-3132)
AllSettled(conns, lookups) == Fulfilled(conns)

(***************************************************************************)
(* getNetSnmpInfo6 (src/core.js:3140-3169) and getIpv6IfStatsEntry         *)
(* (src/core.js:2461-2471).                                                *)
(***************************************************************************)
\* lines.forEach(...) of getNetSnmpInfo6 from the lines left: a line with a
\* name only gives +undefined % COUNTER_WRAP_AT, which is NaN
RECURSIVE Snmp6Lines(_, _)
Snmp6Lines(lines, result) ==
  IF lines = <<>> THEN result
  ELSE LET line == Trim(Head(lines))
           parts == SplitWhiteSpace(line)
           value == IF Len(parts) < 2 THEN NaN ELSE ToNumber(parts[2])
       IN  IF Len(line) = 0 THEN Snmp6Lines(Tail(lines), result)
           ELSE Snmp6Lines(Tail(lines),
                           SetProperty(result, parts[1], NumRem(value, COUNTER_WRAP_AT)))

\* getNetSnmpInfo6 given what reading /proc/net/dev_snmp6/<ifName> yields
getNetSnmpInfo6(file) ==
  IF ~file.ok THEN Rejected([ err |-> "readFile", what |-> "dev_snmp6" ])
  ELSE Fulfilled(Snmp6Lines(Split(file.text, "\n"), EmptyObject))

Ipv6IfIndexKey == <<"i", "p", "v", "6", "I", "f", "I", "n", "d", "e", "x">>

\* the entry without info.ipv6IfIndex = index
getIpv6IfStatsEntryNoIndex(file, index) == getNetSnmpInfo6(file)

\* getIpv6IfStatsEntry (src/core.js:2461-2471)
getIpv6IfStatsEntry(file, index) ==
  LET info == getNetSnmpInfo6(file)
  IN  IF info.status = "rejected" THEN info
      ELSE Fulfilled(SetProperty(info.value, Ipv6IfIndexKey, index))

(***************************************************************************)
(* The kernel's per-interface attribute tree /sys/class/net/<if>/... as    *)
(* the readers see it.  A read yields [ok, text]: ok is FALSE when         *)
(* fsp.readFile rejects (the file or the interface does not exist, or the  *)
(* driver refuses the read, as it does for the speed of a virtual          *)
(* interface).                                                             *)
(***************************************************************************)
Readable(t) == [ ok |-> TRUE, text |-> t ]

Unreadable == [ ok |-> FALSE, text |-> <<>> ]

Line(t) == t \o <<"\n">>

StatFiles ==
  { "statistics/rx_bytes", "statistics/rx_packets", "statistics/multicast",
    "statistics/rx_dropped", "statistics/rx_missed_errors",
    "statistics/rx_errors", "statistics/tx_bytes", "statistics/tx_packets",
    "statistics/tx_dropped", "statistics/tx_errors" }

MandatoryFiles == { "mtu", "address", "operstate", "tx_queue_len" } \cup StatFiles

OptionalFiles == { "speed", "device/vendor", "device/device", "device/revision" }

Files == MandatoryFiles \cup OptionalFiles

\* the file of an interface under /proc/net
ProcFiles == { "dev_snmp6" }

\* /proc/net/dev_snmp6/<ifName> with the two counters it is given here
Snmp6Text(inReceives, outRequests) ==
  <<"I", "p", "6", "I", "n", "R", "e", "c", "e", "i", "v", "e", "s", " ", " ", "\t">> \o inReceives \o <<"\n">>
  \o <<"I", "p", "6", "O", "u", "t", "R", "e", "q", "u", "e", "s", "t", "s", " ">> \o outRequests \o <<"\n">>

\* The interface names of the model.  "constructor" is a legal Linux
\* interface name that is also a property every JavaScript object inherits.
Names == { "lo", "eth0", "constructor" }

\* What the files hold unless a behaviour changes them: a loopback interface
\* without device directory and speed, and hardware interfaces.
BaseFile(n, f) ==
  CASE f = "mtu" -> Readable(Line(IF n = "lo" THEN <<"6", "5", "5", "3", "6">> ELSE <<"1", "5", "0", "0">>))
    [] f = "speed" -> IF n = "lo" THEN Unreadable ELSE Readable(Line(<<"1", "0", "0", "0">>))
    [] f = "address" ->
         Readable(Line(IF n = "lo" THEN <<"0", "0", ":", "0", "0", ":", "0", "0", ":", "0", "0", ":", "0", "0", ":", "0", "0">>
                                   ELSE <<"0", "0", ":", "1", "a", ":", "2", "b", ":", "3", "c", ":", "4", "d", ":", "5", "e">>))
    [] f = "operstate" -> Readable(Line(IF n = "lo" THEN <<"u", "n", "k", "n", "o", "w", "n">> ELSE <<"u", "p">>))
    [] f = "tx_queue_len" -> Readable(Line(<<"1", "0", "0", "0">>))
    [] f = "device/vendor" -> IF n = "lo" THEN Unreadable ELSE Readable(Line(<<"0", "x", "8", "0", "8", "6">>))
    [] f = "device/device" -> IF n = "lo" THEN Unreadable ELSE Readable(Line(<<"0", "x", "1", "0", "0", "e">>))
    [] f = "device/revision" -> IF n = "lo" THEN Unreadable ELSE Readable(Line(<<"0", "x", "0", "2">>))
    [] f = "statistics/rx_bytes" -> Readable(Line(<<"4", "2", "9", "4", "9", "6", "7", "3", "0", "1">>))
    [] f = "statistics/rx_packets" -> Readable(Line(<<"7">>))
    [] f = "statistics/multicast" -> Readable(Line(<<"5">>))
    [] f = "statistics/tx_bytes" -> Readable(Line(<<"4", "2", "9", "4", "9", "6", "7", "2", "9", "5">>))
    [] f = "statistics/tx_packets" -> Readable(Line(<<"1">>))
    [] f = "statistics/rx_missed_errors" -> Readable(Line(<<"5">>))
    [] f = "dev_snmp6" ->
         Readable(IF n = "lo" THEN Snmp6Text(<<"7">>, <<"7">>)
                  ELSE Snmp6Text(<<"4", "2", "9", "4", "9", "6", "7", "3", "0", "1">>, <<"1">>))
    [] OTHER -> Readable(Line(<<"0">>))

\* Contents a numeric file is given where the files differ from BaseFile:
\* values around the 32-bit boundary, a negative value (the kernel reports
\* speed -1 for a link that is down) and an unreadable file.
NumberTexts ==
  { <<"0">>, <<"5">>, <<"7">>, <<"4", "2", "9", "4", "9", "6", "7", "2", "9", "5">>, <<"4", "2", "9", "4", "9", "6", "7", "2", "9", "6">>, <<"4", "2", "9", "4", "9", "6", "7", "3", "0", "1">>,
    <<"4", "2", "9", "4", "9", "6", "7", "3", "9", "6">> }

FileContents(f) ==
  { Unreadable } \cup
  IF f = "speed" THEN { Readable(Line(t)) : t \in NumberTexts \cup { <<"-", "1">> } }
  ELSE IF f \in StatFiles \cup { "mtu", "tx_queue_len" }
    THEN { Readable(Line(t)) : t \in NumberTexts }
  ELSE IF f = "operstate" THEN { Readable(Line(<<"U", "P">>)), Readable(Line(<<"d", "o", "w", "n">>)) }
  ELSE IF f = "address" THEN { Readable(Line(<<>>)) }
  ELSE IF f = "dev_snmp6"
    THEN { Readable(Snmp6Text(i, o)) :
             i \in { <<"0">>, <<"4", "2", "9", "4", "9", "6", "7", "2", "9", "5">>,
                      <<"4", "2", "9", "4", "9", "6", "7", "2", "9", "6">> },
             o \in { <<"7">>, <<"4", "2", "9", "4", "9", "6", "7", "3", "9", "6">> } }
  ELSE { Readable(Line(<<"0", "x", "f", "f", "f", "f">>)) }

(***************************************************************************)
(* The PCI ID database as parsePciIds returns it: vendor id -> manufacturer *)
(* and devices (device id -> name).                                        *)
(***************************************************************************)
ParsedPciIds ==
  [ v \in { <<"8", "0", "8", "6">> } |->
      [ manufacturer |-> <<"I", "n", "t", "e", "l">>,
        devices |-> [ d \in { <<"1", "0", "0", "e">> } |-> <<"8", "2", "5", "4", "0", "E", "M">> ] ] ]

(***************************************************************************)
(* getIfEntry (src/core.js:259-710): the readers of one interface record.  *)
(* rd maps each file of the interface to the outcome of its readFile.      *)
(***************************************************************************)
ReadError(f) == [ err |-> "readFile", what |-> f ]

\* Promise.resolve().then(() => fsp.readFile(f)).then(v => conv(v)): the
\* rejection of the read passes through to the caller.
ReadThen(rd, f, conv(_)) ==
  IF rd[f].ok THEN Fulfilled(conv(rd[f].text)) ELSE Rejected(ReadError(f))

\* v => +v.toString().trim()
TextToNumber(v) == ToNumber(Trim(v))

\* v => +v.toString().trim() % COUNTER_WRAP_AT
TextToCounter(v) == NumRem(ToNumber(Trim(v)), COUNTER_WRAP_AT)

\* The result of `in` and of a property read on the plain object ifIndexMap
\* (src/core.js:19): own properties are the registry entries, and the
\* properties of Object.prototype are inherited.
ObjectPrototypeKeys ==
  { "constructor", "toString", "toLocaleString", "valueOf", "hasOwnProperty",
    "isPrototypeOf", "propertyIsEnumerable", "__proto__", "__defineGetter__",
    "__defineSetter__", "__lookupGetter__", "__lookupSetter__" }

HasProperty(map, name) == name \in DOMAIN map \/ name \in ObjectPrototypeKeys

GetProperty(map, name) ==
  IF name \in DOMAIN map THEN [ kind |-> "number", n |-> map[name] ]
  ELSE IF name \in ObjectPrototypeKeys THEN [ kind |-> "function", n |-> 0 ]
  ELSE [ kind |-> "undefined", n |-> 0 ]

NotExistError(ifName) == [ err |-> "Interface does not exist", what |-> ifName ]

\* ifIndex before its enumeration (src/core.js:267-274): the registry is
\* consulted synchronously; Pending means addIfIndexes is to be awaited.
ifIndexSync(map, ifName) ==
  IF HasProperty(map, ifName) THEN Fulfilled(GetProperty(map, ifName)) ELSE Pending

\* ifIndex after its enumeration (src/core.js:279-288)
ifIndexAfterEnum(map, ifName) ==
  IF ~HasProperty(map, ifName) THEN Rejected(NotExistError(ifName))
  ELSE Fulfilled(GetProperty(map, ifName))

\* ifDescr (src/core.js:296-350).  The " | "-joined description is kept as
\* the record of its four parts.
GetValueOrUnknown(rd, f) == IF rd[f].ok THEN Trim(rd[f].text) ELSE <<"U", "n", "k", "n", "o", "w", "n">>

ifDescr(ifName, rd, db) ==
  LET vendor == RemoveFirst(GetValueOrUnknown(rd, "device/vendor"), <<"0", "x">>)
      device == RemoveFirst(GetValueOrUnknown(rd, "device/device"), <<"0", "x">>)
      \* pciIds[vendor].manufacturer throws, and is caught, for a vendor the
      \* database does not have
      manufacturer == IF vendor \in DOMAIN db THEN db[vendor].manufacturer ELSE vendor
      \* pciIds[vendor].devices[device] is undefined for an unlisted device
      \* of a listed vendor
      deviceName ==
        IF vendor \in DOMAIN db
          THEN IF device \in DOMAIN db[vendor].devices
                 THEN db[vendor].devices[device] ELSE <<"u", "n", "d", "e", "f", "i", "n", "e", "d">>
          ELSE device
  IN  Fulfilled([ Interface |-> ifName, Vendor |-> manufacturer,
                  Device |-> deviceName,
                  Rev |-> GetValueOrUnknown(rd, "device/revision") ])

ifType == Fulfilled(1)

\* ifMtu with a failed read replaced by 0 instead of passed on.
ifMtuOrZero(rd) ==
  IF rd["mtu"].ok THEN Fulfilled(TextToNumber(rd["mtu"].text)) ELSE Fulfilled(NumZero)

ifMtu(rd) == ReadThen(rd, "mtu", TextToNumber)

\* ifSpeedNoCatch below is ifSpeed without its catch: a failed read rejects.
\*
\* src/core.js:418-427.  GAUGE_MAX is written outside the parentheses of
\* Math.min: it is the second argument of then(), which ignores a value that
\* is no function, and Math.min is called with one argument.
ifSpeedNoCatch(rd) ==
  IF ~rd["speed"].ok THEN Rejected(ReadError("speed"))
  ELSE LET speed == ToNumber(Trim(rd["speed"].text))
       IN  Fulfilled(MathMin1(IF NumLess(speed, NumZero) THEN SpeedUnavailable ELSE speed))

ifSpeed(rd) ==
  LET speed == IF rd["speed"].ok THEN ToNumber(Trim(rd["speed"].text))
               ELSE SpeedUnavailable
  IN  Fulfilled(MathMin1(IF NumLess(speed, NumZero) THEN SpeedUnavailable ELSE speed))

\* Buffer.from(array) keeps the low 8 bits of each element, 0 for NaN
ByteOf(n) == IF n < 0 THEN 0 ELSE n % 256

AddressBytes(v) ==
  LET t == IF Trim(v) = <<>> THEN <<"0", "0", ":", "0", "0", ":", "0", "0", ":", "0", "0", ":", "0", "0", ":", "0", "0">> ELSE Trim(v)
      parts == Split(t, ":")
  IN  [ i \in DOMAIN parts |-> ByteOf(ParseInt16(parts[i])) ]

ifPhysAddress(rd) == ReadThen(rd, "address", AddressBytes)

ifAdminStatus == Fulfilled(1)

OperStatusOf(v) == IF ToLowerCase(Trim(v)) = <<"u", "p">> THEN 1 ELSE 2

ifOperStatus(rd) == ReadThen(rd, "operstate", OperStatusOf)

ifLastChange == Fulfilled(0)

ifInOctets(rd) == ReadThen(rd, "statistics/rx_bytes", TextToCounter)

\* Promise.all of two reads, then (rx_packets - multicast) % COUNTER_WRAP_AT
ifInUcastPkts(rd) ==
  IF ~rd["statistics/rx_packets"].ok THEN Rejected(ReadError("statistics/rx_packets"))
  ELSE IF ~rd["statistics/multicast"].ok THEN Rejected(ReadError("statistics/multicast"))
  ELSE Fulfilled(NumRem(NumSub(TextToNumber(rd["statistics/rx_packets"].text),
                               TextToNumber(rd["statistics/multicast"].text)),
                        COUNTER_WRAP_AT))

ifInNUcastPkts(rd) == ReadThen(rd, "statistics/multicast", TextToCounter)

\* Promise.all of two reads, then (rx_dropped + rx_missed_errors) % COUNTER_WRAP_AT
ifInDiscards(rd) ==
  IF ~rd["statistics/rx_dropped"].ok THEN Rejected(ReadError("statistics/rx_dropped"))
  ELSE IF ~rd["statistics/rx_missed_errors"].ok
    THEN Rejected(ReadError("statistics/rx_missed_errors"))
  ELSE Fulfilled(NumRem(NumAdd(TextToNumber(rd["statistics/rx_dropped"].text),
                               TextToNumber(rd["statistics/rx_missed_errors"].text)),
                        COUNTER_WRAP_AT))

ifInErrors(rd) == ReadThen(rd, "statistics/rx_errors", TextToCounter)

ifInUnknownProtos(rd) == ReadThen(rd, "statistics/rx_dropped", TextToCounter)

ifOutOctets(rd) == ReadThen(rd, "statistics/tx_bytes", TextToCounter)

ifOutUcastPkts(rd) == ReadThen(rd, "statistics/tx_packets", TextToCounter)

ifOutNUcastPkts == Fulfilled(NumRem(NumZero, COUNTER_WRAP_AT))

ifOutDiscards(rd) == ReadThen(rd, "statistics/tx_dropped", TextToCounter)

ifOutErrors(rd) == ReadThen(rd, "statistics/tx_errors", TextToCounter)

\* v => Math.min(+v.toString().trim(), GAUGE_MAX)
TextToGauge(v) == MathMin2(ToNumber(Trim(v)), GAUGE_MAX)

ifOutQLen(rd) == ReadThen(rd, "tx_queue_len", TextToGauge)

ifSpecific == Fulfilled(<<"0", ".", "0">>)

\* The field names of an interface record, in the order of the array given
\* to Promise.all (src/core.js:655-679) and of the result (682-706).
IfEntryFields ==
  << "ifIndex", "ifDescr", "ifType", "ifMtu", "ifSpeed", "ifPhysAddress",
     "ifAdminStatus", "ifOperStatus", "ifLastChange", "ifInOctets",
     "ifInUcastPkts", "ifInNUcastPkts", "ifInDiscards", "ifInErrors",
     "ifInUnknownProtos", "ifOutOctets", "ifOutUcastPkts", "ifOutNUcastPkts",
     "ifOutDiscards", "ifOutErrors", "ifOutQLen", "ifSpecific" >>

\* The settled outcomes of the 22 readers; idx is the outcome of ifIndex.
IfEntryOutcomes(ifName, idx, rd, db) ==
  << idx, ifDescr(ifName, rd, db), ifType, ifMtu(rd), ifSpeed(rd),
     ifPhysAddress(rd), ifAdminStatus, ifOperStatus(rd), ifLastChange,
     ifInOctets(rd), ifInUcastPkts(rd), ifInNUcastPkts(rd), ifInDiscards(rd),
     ifInErrors(rd), ifInUnknownProtos(rd), ifOutOctets(rd), ifOutUcastPkts(rd),
     ifOutNUcastPkts, ifOutDiscards(rd), ifOutErrors(rd), ifOutQLen(rd),
     ifSpecific >>

\* results.shift() per field: the i-th value goes to the i-th field
RecordOfResults(results) ==
  [ f \in Range(IfEntryFields) |->
      results[CHOOSE i \in DOMAIN IfEntryFields : IfEntryFields[i] = f] ]

\* The outcomes getIfEntry can settle with: Promise.all rejects with the
\* rejection that happens first, which is any of the rejecting readers.
getIfEntry(ifName, idx, rd, db) ==
  LET outs == IfEntryOutcomes(ifName, idx, rd, db)
      bad == { i \in DOMAIN outs : outs[i].status = "rejected" }
  IN  IF bad # {} THEN { Rejected(outs[i].value) : i \in bad }
      ELSE { Fulfilled(RecordOfResults([ i \in DOMAIN outs |-> outs[i].value ])) }

(***************************************************************************)
(* The interface index registry (src/core.js:19-20, 2769-2788).            *)
(***************************************************************************)
\* addIfIndexes without the test for a name already in the map: every
\* enumerated name is given the next index again.
RECURSIVE addIfIndexesAlways(_, _, _)
addIfIndexesAlways(ifNames, map, next) ==
  IF ifNames = <<>> THEN [ map |-> map, next |-> next ]
  ELSE addIfIndexesAlways(Tail(ifNames),
                          [ n \in DOMAIN map \cup { Head(ifNames) } |->
                              IF n = Head(ifNames) THEN next ELSE map[n] ],
                          next + 1)

\* addIfIndexes without the increment of nextIfIndex.
RECURSIVE addIfIndexesNoIncrement(_, _, _)
addIfIndexesNoIncrement(ifNames, map, next) ==
  IF ifNames = <<>> THEN [ map |-> map, next |-> next ]
  ELSE IF ~HasProperty(map, Head(ifNames))
    THEN addIfIndexesNoIncrement(Tail(ifNames),
                                 [ n \in DOMAIN map \cup { Head(ifNames) } |->
                                     IF n = Head(ifNames) THEN next ELSE map[n] ],
                                 next)
    ELSE addIfIndexesNoIncrement(Tail(ifNames), map, next)

\* The forEach of addIfIndexes over a listing: a name that is not `in` the
\* map gets nextIfIndex, which is then incremented.
RECURSIVE addIfIndexes(_, _, _)
addIfIndexes(ifNames, map, next) ==
  IF ifNames = <<>> THEN [ map |-> map, next |-> next ]
  ELSE LET ifName == Head(ifNames)
       IN  IF ~HasProperty(map, ifName)
             THEN addIfIndexes(Tail(ifNames),
                               [ n \in DOMAIN map \cup { ifName } |->
                                   IF n = ifName THEN next ELSE map[n] ],
                               next + 1)
             ELSE addIfIndexes(Tail(ifNames), map, next)

(***************************************************************************)
(* State.                                                                  *)
(***************************************************************************)
VARIABLES
  netdir,       \* what fsp.readdir("/sys/class/net") lists now, in its order
  sysfs,        \* the files that differ from BaseFile: <<n, f>> -> content
  ifIndexMap,   \* the own properties of ifIndexMap: name -> index
  nextIfIndex,  \* nextIfIndex
  pciIds,       \* pciIds: [loaded, db]
  parses,       \* history: how often parsePciIds was called
  calls,        \* the accessor calls in progress, by caller
  seenOrder,    \* history: the names in the order enumerations first met them
  hex,          \* the argument of hexToIp4
  ip,           \* its result, <<>> before the call
  bcastCall,    \* the argument and the result of ipAdEntBcastAddr
  snmpFile,     \* what reading /proc/net/snmp yields
  snmpInfo,     \* the outcome of getNetSnmpInfo4, Pending before the call
  icmpCall,     \* the last call of an ICMP counter accessor: [field, result]
  cache,        \* this.cache of the SnmpLinuxLib object
  sysArgs,      \* the arguments its constructor was given
  sysCall,      \* the last call made on the identity fields
  procNet,      \* what reading /proc/net/tcp and /proc/net/udp yields
  connCall,     \* the getTcpConnTable or getUdpTable call in progress
  prev,         \* history: the table call a caller kept the result of
  mib           \* the ifTable of the agent's MIB and the fills in progress

vars ==
  << netdir, sysfs, ifIndexMap, nextIfIndex, pciIds, parses, calls, seenOrder, hex, ip, bcastCall,
     snmpFile, snmpInfo, icmpCall, cache, sysArgs, sysCall, procNet, connCall, prev,
     mib >>

envVars == << netdir, sysfs >>

registryVars == << ifIndexMap, nextIfIndex, seenOrder >>

hexVars == << hex, ip, bcastCall >>

snmpVars == << snmpFile, snmpInfo, icmpCall >>

\* the variables of the parsers and helpers that are exercised on their own
sysVars == << cache, sysArgs, sysCall >>

connVars == << procNet, connCall >>

histVars == << prev, mib >>

pureVars == << hexVars, snmpVars, sysVars, connVars, histVars >>

\* the variables of the interface accessors and of their environment
coreVars ==
  << netdir, sysfs, ifIndexMap, nextIfIndex, pciIds, parses, calls, seenOrder >>

pciVars == << pciIds, parses >>

\* The SNMP engine, which issues one request at a time.
Callers == { "engine" }

\* Calls that overlap: the callers do not wait for one another.
OverlappingCallers == { "first", "second" }

Idle ==
  [ op |-> "none", arg |-> "", pc |-> "idle", names |-> <<>>, idx |-> <<>>,
    addrs |-> <<>>, result |-> Pending ]

EmptyMap == [ n \in {} |-> 0 ]

PciUndefined == [ loaded |-> FALSE, db |-> <<>> ]

PciLoaded == [ loaded |-> TRUE, db |-> ParsedPciIds ]

\* The state after the module is loaded and a SnmpLinuxLib is constructed.
InitProgram ==
  /\ ifIndexMap = EmptyMap
  /\ nextIfIndex = 1
  /\ pciIds = PciUndefined
  /\ parses = 0
  /\ calls = [ c \in Callers |-> Idle ]
  /\ seenOrder = <<>>

(***************************************************************************)
(* The accessors.  Each action is one run-to-completion step of the event  *)
(* loop: the synchronous part of a call, or one promise callback.          *)
(***************************************************************************)
\* getIfNumber (src/core.js:226-231) up to its readdir
getIfNumberCall(c) ==
  /\ calls[c].pc = "idle"
  /\ calls' = [ calls EXCEPT ![c] = [ Idle EXCEPT !.op = "getIfNumber", !.pc = "readdir" ] ]
  /\ UNCHANGED << envVars, registryVars, pciVars, pureVars >>

\* getIfTable (src/core.js:237-246) up to its first await
getIfTableCall(c) ==
  /\ calls[c].pc = "idle"
  /\ calls' = [ calls EXCEPT ![c] =
                  [ Idle EXCEPT !.op = "getIfTable",
                                !.pc = IF pciIds.loaded THEN "readdir" ELSE "parse" ] ]
  /\ parses' = IF pciIds.loaded THEN parses ELSE parses + 1
  /\ UNCHANGED << envVars, registryVars, pciIds, pureVars >>

\* pciIds = await require("./parsePciIds")(this.pciIdPath) (src/core.js:242)
parsePciIdsDone(c) ==
  /\ calls[c].pc = "parse"
  /\ pciIds' = PciLoaded
  /\ calls' = [ calls EXCEPT ![c].pc = "readdir" ]
  /\ UNCHANGED << envVars, registryVars, parses, pureVars >>

\* init() (src/core.js:95-102) up to its await
initCall(c) ==
  /\ calls[c].pc = "idle"
  /\ calls' = [ calls EXCEPT ![c] =
                  IF pciIds.loaded
                    THEN [ Idle EXCEPT !.op = "init", !.pc = "done",
                                       !.result = Fulfilled(Undefined) ]
                    ELSE [ Idle EXCEPT !.op = "init", !.pc = "initparse" ] ]
  /\ parses' = IF pciIds.loaded THEN parses ELSE parses + 1
  /\ UNCHANGED << envVars, registryVars, pciIds, pureVars >>

\* pciIds = await require("./parsePciIds")(this.pciIdPath) (src/core.js:100)
initParsed(c) ==
  /\ calls[c].pc = "initparse"
  /\ pciIds' = PciLoaded
  /\ calls' = [ calls EXCEPT ![c].pc = "done", ![c].result = Fulfilled(Undefined) ]
  /\ UNCHANGED << envVars, registryVars, parses, pureVars >>

\* getIfEntry(ifName) (src/core.js:259-289, 655-679): all readers start;
\* ifIndex answers from the registry or goes on to enumerate.
getIfEntryCall(c, ifName) ==
  /\ calls[c].pc = "idle"
  /\ LET idx == ifIndexSync(ifIndexMap, ifName)
     IN  calls' = [ calls EXCEPT ![c] =
                      [ Idle EXCEPT !.op = "getIfEntry", !.arg = ifName,
                                    !.idx = << idx >>,
                                    !.pc = IF idx = Pending THEN "readdir"
                                           ELSE "reading" ] ]
  \* ifDescr runs up to its await (src/core.js:302-306)
  /\ parses' = IF pciIds.loaded THEN parses ELSE parses + 1
  /\ UNCHANGED << envVars, registryVars, pciIds, pureVars >>

\* fsp.readdir("/sys/class/net") of addIfIndexes reads the directory
\* (src/core.js:2772)
readdirDone(c) ==
  /\ calls[c].pc = "readdir"
  /\ calls' = [ calls EXCEPT ![c].names = netdir, ![c].pc = "gotdir" ]
  /\ UNCHANGED << envVars, registryVars, pciVars, pureVars >>

\* the names of a listing that seen does not have yet, in listing order
RECURSIVE NewlySeen(_, _)
NewlySeen(ifNames, seen) ==
  IF ifNames = <<>> THEN <<>>
  ELSE IF Head(ifNames) \in Range(seen) THEN NewlySeen(Tail(ifNames), seen)
  ELSE << Head(ifNames) >> \o NewlySeen(Tail(ifNames), seen \o << Head(ifNames) >>)

\* The callback of addIfIndexes (src/core.js:2774-2787) and the callback of
\* its caller, which runs on its result: getIfNumber (230), getIfTable
\* (247-252), ifIndex of getIfEntry (279-288).
addIfIndexesDone(c) ==
  /\ calls[c].pc = "gotdir"
  /\ LET reg == addIfIndexes(calls[c].names, ifIndexMap, nextIfIndex)
         ifNames == calls[c].names
         cur == calls[c]
     IN  /\ ifIndexMap' = reg.map
         /\ nextIfIndex' = reg.next
         /\ seenOrder' = seenOrder \o NewlySeen(ifNames, seenOrder)
         /\ calls' =
              [ calls EXCEPT ![c] =
                  CASE cur.op = "getIfNumber" ->
                         [ cur EXCEPT !.pc = "done", !.result = Fulfilled(Len(ifNames)) ]
                    [] cur.op = "getIfTable" ->
                         [ cur EXCEPT !.pc = "reading",
                                      !.idx = [ i \in DOMAIN ifNames |->
                                                  ifIndexSync(reg.map, ifNames[i]) ] ]
                    [] cur.op = "getIfEntry" ->
                         [ cur EXCEPT !.pc = "reading",
                                      !.idx = << ifIndexAfterEnum(reg.map, cur.arg) >> ]
                    [] cur.op = "getIpRouteTable" -> [ cur EXCEPT !.pc = "readroute" ]
                    [] cur.op = "getIpv6IfStatsTable" ->
                         [ cur EXCEPT !.pc = "reading6",
                                      !.idx = [ i \in DOMAIN ifNames |->
                                                  GetProperty(reg.map, ifNames[i]) ] ]
                    [] cur.op \in { "getIpAddrTable", "getIpv6AddrTable",
                                    "getIpNetToMediaTable" } ->
                         [ cur EXCEPT !.pc = "entries",
                                      !.idx = [ i \in DOMAIN cur.addrs |->
                                                  ifIndexAfterEnum(reg.map,
                                                    cur.addrs[i].interface) ] ] ]
  /\ UNCHANGED << envVars, pciVars, pureVars >>

\* what the readFile calls of interface n yield
FileOf(n, f) == IF << n, f >> \in DOMAIN sysfs THEN sysfs[<< n, f >>] ELSE BaseFile(n, f)

ReadFilesOf(n) ==
  [ f \in Files |-> IF n \in Range(netdir) THEN FileOf(n, f) ELSE Unreadable ]

\* the table as Promise.allSettled would give it: the entries that are
\* fulfilled, the others left out
getIfTableOutcomesSettled(ifNames, idx) ==
  LET entries == [ i \in DOMAIN ifNames |->
                     getIfEntry(ifNames[i], idx[i], ReadFilesOf(ifNames[i]),
                                ParsedPciIds) ]
      good == SelectSeq([ i \in DOMAIN ifNames |-> CHOOSE o \in entries[i] : TRUE ],
                        LAMBDA o : o.status = "fulfilled")
  IN  { Fulfilled([ i \in DOMAIN good |-> good[i].value ]) }

\* The outcomes Promise.all over the entries of a table can settle with
\* (src/core.js:249-251).
getIfTableOutcomes(ifNames, idx) ==
  LET entries == [ i \in DOMAIN ifNames |->
                     getIfEntry(ifNames[i], idx[i], ReadFilesOf(ifNames[i]),
                                ParsedPciIds) ]
      rejections == UNION { { o \in entries[i] : o.status = "rejected" }
                            : i \in DOMAIN ifNames }
  IN  IF rejections # {} THEN rejections
      ELSE { Fulfilled([ i \in DOMAIN ifNames |->
                           (CHOOSE o \in entries[i] : TRUE).value ]) }

\* The file reads of the entry or entries of a call settle and Promise.all
\* gives the call's result (src/core.js:655-709; 249-251 for a table).
\* ifDescr has parsed the PCI ID database if it was not there (302-306).
readFilesDone(c) ==
  /\ calls[c].pc = "reading"
  /\ pciIds' = PciLoaded
  /\ \E out \in IF calls[c].op = "getIfTable"
                  THEN getIfTableOutcomes(calls[c].names, calls[c].idx)
                  ELSE getIfEntry(calls[c].arg, calls[c].idx[1],
                                  ReadFilesOf(calls[c].arg), ParsedPciIds) :
       calls' = [ calls EXCEPT ![c].pc = "done", ![c].result = out ]
  /\ UNCHANGED << envVars, registryVars, parses, pureVars >>

(***************************************************************************)
(* getIpAddrTable and getIpv6AddrTable (src/core.js:1009-1187, 2490-2638). *)
(***************************************************************************)
(* ipAdEntBcastAddr of getIpAddrEntry (src/core.js:1098-1162).             *)
(***************************************************************************)
\* +text for a text that is a small whole number; -1 stands for NaN
RECURSIVE DecPrefixValue(_, _)
DecPrefixValue(t, acc) ==
  IF t = <<>> THEN acc
  ELSE IF ~IsDecDigit(Head(t)) THEN -1
  ELSE DecPrefixValue(Tail(t), acc * 10 + DecDigitValue(Head(t)))

SmallNumber(t) == DecPrefixValue(t, 0)

\* ("00000000" + n.toString(2)).substr(-8)
Bits8(n) ==
  IF n < 0 THEN <<"0", "0", "0", "0", "0", "N", "a", "N">>
  ELSE [ i \in 1..8 |-> IF (n \div (2 ^ (8 - i))) % 2 = 1 THEN "1" ELSE "0" ]

\* parseInt(text, 2): the value of the binary digits the text starts with
RECURSIVE BinPrefixValue(_, _)
BinPrefixValue(t, acc) ==
  IF t = <<>> \/ Head(t) \notin { "0", "1" } THEN acc
  ELSE BinPrefixValue(Tail(t), acc * 2 + (IF Head(t) = "1" THEN 1 ELSE 0))

ParseInt2(t) ==
  IF t = <<>> \/ Head(t) \notin { "0", "1" } THEN -1 ELSE BinPrefixValue(t, 0)

RECURSIVE Flatten(_)
Flatten(ss) == IF ss = <<>> THEN <<>> ELSE Head(ss) \o Flatten(Tail(ss))

\* ipAdEntBcastAddr without the loop that sets the host bits
ipAdEntBcastAddrOfAddress(cidr) ==
  LET octets == Split(Split(cidr, "/")[1], ".")
      bits == Flatten([ k \in DOMAIN octets |-> Bits8(SmallNumber(octets[k])) ])
      octet == ParseInt2(Substr(bits, 24, 8))
  IN  IF octet < 0 THEN 0 ELSE octet % 2

\* ipAdEntBcastAddr given entry.cidr
ipAdEntBcastAddr(cidr) ==
  LET parts == Split(cidr, "/")
      octets == Split(parts[1], ".")
      bits == Flatten([ k \in DOMAIN octets |-> Bits8(SmallNumber(octets[k])) ])
      \* for (i = netmask; i < 32; i++): i is the text first, a number then
      first == IF Len(parts) < 2 THEN -1 ELSE SmallNumber(parts[2])
      set == IF first < 0 THEN {}
             ELSE { i \in first..31 : i > first \/ DecText(first) = parts[2] }
      len == IF set = {} \/ Len(bits) > 32 THEN Len(bits) ELSE 32
      \* bits[i] = "1"; an element never written joins as the empty text
      joined == Flatten([ j \in 1..len |->
                           IF (j - 1) \in set THEN <<"1">>
                           ELSE IF j <= Len(bits) THEN << bits[j] >> ELSE <<>> ])
      octet == ParseInt2(Substr(joined, 24, 8))
  \* ip[3] & 0x01
  IN  IF octet < 0 THEN 0 ELSE octet % 2

(***************************************************************************)
\* What os.networkInterfaces() reports for an interface that is present.
AddressesOf(n) ==
  CASE n = "lo" ->
         << [ family |-> "IPv4", address |-> "127.0.0.1", netmask |-> "255.0.0.0",
              mac |-> "00:00:00:00:00:00", cidr |-> <<"1", "2", "7", ".", "0", ".", "0", ".", "1", "/", "8">> ],
            [ family |-> "IPv6", address |-> "::1", netmask |-> "ffff::",
              mac |-> "00:00:00:00:00:00", cidr |-> <<":", ":", "1", "/", "1", "2", "8">> ] >>
    [] n = "eth0" ->
         << [ family |-> "IPv4", address |-> "192.168.1.1", netmask |-> "255.255.255.0",
              mac |-> "52:54:00:00:00:01", cidr |-> <<"1", "9", "2", ".", "1", "6", "8", ".", "1", ".", "1", "/", "2", "4">> ],
            [ family |-> "IPv6", address |-> "fe80::1", netmask |-> "ffff:ffff:ffff:ffff::",
              mac |-> "52:54:00:00:00:01", cidr |-> <<"f", "e", "8", "0", ":", ":", "1", "/", "6", "4">> ],
            [ family |-> "IPv4", address |-> "192.168.1.2", netmask |-> "255.255.255.0",
              mac |-> "52:54:00:00:00:01", cidr |-> <<"1", "9", "2", ".", "1", "6", "8", ".", "1", ".", "2", "/", "2", "4">> ] >>
    [] OTHER ->
         << [ family |-> "IPv4", address |-> "10.0.0.1", netmask |-> "255.0.0.0",
              mac |-> "52:54:00:00:00:02", cidr |-> <<"1", "0", ".", "0", ".", "0", ".", "1", "/", "8">> ] >>

\* the elements of os.networkInterfaces() for the interfaces of a listing,
\* each with elem.interface = iface (src/core.js:2802-2809)
RECURSIVE NetworkInterfaceElems(_)
NetworkInterfaceElems(dir) ==
  IF dir = <<>> THEN <<>>
  ELSE [ i \in DOMAIN AddressesOf(Head(dir)) |->
           [ interface |-> Head(dir), family |-> AddressesOf(Head(dir))[i].family,
             address |-> AddressesOf(Head(dir))[i].address,
             netmask |-> AddressesOf(Head(dir))[i].netmask,
             mac |-> AddressesOf(Head(dir))[i].mac,
             cidr |-> AddressesOf(Head(dir))[i].cidr ] ]
       \o NetworkInterfaceElems(Tail(dir))

\* byIpAddr[family] of getAddressInfo (src/core.js:2812) in the order of
\* for (ipAddr in ...): an address met again keeps its place and takes the
\* later element
RECURSIVE ByIpAddr(_, _, _)
ByIpAddr(elems, family, acc) ==
  IF elems = <<>> THEN acc
  ELSE LET elem == Head(elems)
           at == { i \in DOMAIN acc : acc[i].address = elem.address }
       IN  IF elem.family # family THEN ByIpAddr(Tail(elems), family, acc)
           ELSE IF at = {} THEN ByIpAddr(Tail(elems), family, Append(acc, elem))
           ELSE ByIpAddr(Tail(elems), family,
                         [ i \in DOMAIN acc |-> IF i \in at THEN elem ELSE acc[i] ])

\* byHwAddr.IPv4 of getAddressInfo (src/core.js:2814-2819) in the order of
\* for (hwAddr in ...): the elements of "lo" are left out, a hardware address
\* met again keeps its place and takes the later element
RECURSIVE ByHwAddr(_, _)
ByHwAddr(elems, acc) ==
  IF elems = <<>> THEN acc
  ELSE LET elem == Head(elems)
           at == { i \in DOMAIN acc : acc[i].mac = elem.mac }
       IN  IF elem.family # "IPv4" \/ elem.interface = "lo"
             THEN ByHwAddr(Tail(elems), acc)
           ELSE IF at = {} THEN ByHwAddr(Tail(elems), Append(acc, elem))
           ELSE ByHwAddr(Tail(elems),
                         [ i \in DOMAIN acc |-> IF i \in at THEN elem ELSE acc[i] ])

\* getIpNetToMediaTable up to the enumerations of its entries
\* (src/core.js:1299-1320)
getIpNetToMediaTableCall(c) ==
  /\ calls[c].pc = "idle"
  /\ LET byHwAddr == ByHwAddr(NetworkInterfaceElems(netdir), <<>>)
     IN  calls' = [ calls EXCEPT ![c] =
                      IF byHwAddr = <<>>
                        THEN [ Idle EXCEPT !.op = "getIpNetToMediaTable", !.pc = "done",
                                           !.result = Fulfilled(<<>>) ]
                        ELSE [ Idle EXCEPT !.op = "getIpNetToMediaTable",
                                           !.pc = "readdir", !.addrs = byHwAddr ] ]
  /\ UNCHANGED << envVars, registryVars, pciVars, pureVars >>

\* the record of getIpNetToMediaEntry (src/core.js:1402-1422)
IpNetToMediaEntryResult(entry, index) ==
  [ ipNetToMediaIfIndex |-> index, ipNetToMediaPhysAddress |-> entry.mac,
    ipNetToMediaNetAddress |-> entry.address, ipNetToMediaType |-> 1 ]

\* getIpAddrTable and getIpv6AddrTable up to the enumerations of their
\* entries (src/core.js:1011-1030, 2492-2511): the addresses are taken from
\* os.networkInterfaces() now; without any, Promise.all([]) is fulfilled.
AddrTableCall(c, op, family) ==
  /\ calls[c].pc = "idle"
  /\ LET byIpAddr == ByIpAddr(NetworkInterfaceElems(netdir), family, <<>>)
     IN  calls' = [ calls EXCEPT ![c] =
                      IF byIpAddr = <<>>
                        THEN [ Idle EXCEPT !.op = op, !.pc = "done",
                                           !.result = Fulfilled(<<>>) ]
                        ELSE [ Idle EXCEPT !.op = op, !.pc = "readdir",
                                           !.addrs = byIpAddr ] ]
  /\ UNCHANGED << envVars, registryVars, pciVars, pureVars >>

getIpAddrTableCall(c) == AddrTableCall(c, "getIpAddrTable", "IPv4")

getIpv6AddrTableCall(c) == AddrTableCall(c, "getIpv6AddrTable", "IPv6")

\* the record of getIpAddrEntry (src/core.js:1166-1185)
IpAddrEntryResult(entry, index) ==
  [ ipAdEntAddr |-> entry.address, ipAdEntIfIndex |-> index,
    ipAdEntNetMask |-> entry.netmask,
    ipAdEntBcastAddr |-> ipAdEntBcastAddr(entry.cidr),
    ipAdEntReasmMaxSize |-> 65535 ]

\* the record of getIpv6AddrEntry (src/core.js:2607-2637)
Ipv6AddrEntryResult(entry, index) ==
  [ ipv6IfIndex |-> index, ipv6AddrAddress |-> entry.address,
    ipv6AddrPfxLength |-> ToNumber(Split(entry.cidr, "/")[2]),
    ipv6AddrType |-> 3, ipv6AddrAnycastFlag |-> 2, ipv6AddrStatus |-> 5 ]

\* The outcomes Promise.all over the entries of an address table can
\* settle with (src/core.js:1029, 2510).
AddrTableOutcomes(op, addrs, idx) ==
  LET rejections == { idx[i] : i \in { j \in DOMAIN idx : idx[j].status = "rejected" } }
  IN  IF rejections # {} THEN rejections
      ELSE { Fulfilled([ i \in DOMAIN addrs |->
                           CASE op = "getIpAddrTable" ->
                                  IpAddrEntryResult(addrs[i], idx[i].value)
                             [] op = "getIpNetToMediaTable" ->
                                  IpNetToMediaEntryResult(addrs[i], idx[i].value)
                             [] OTHER -> Ipv6AddrEntryResult(addrs[i], idx[i].value) ]) }

\* the entries of an address table have settled
addrEntriesDone(c) ==
  /\ calls[c].pc = "entries"
  /\ \E out \in AddrTableOutcomes(calls[c].op, calls[c].addrs, calls[c].idx) :
       calls' = [ calls EXCEPT ![c].pc = "done", ![c].result = out ]
  /\ UNCHANGED << envVars, registryVars, pciVars, pureVars >>

(***************************************************************************)
(* getIpv6IfStatsTable (src/core.js:2449-2459).                            *)
(***************************************************************************)
\* getIpv6IfStatsTable up to its readdir
getIpv6IfStatsTableCall(c) ==
  /\ calls[c].pc = "idle"
  /\ calls' = [ calls EXCEPT ![c] =
                  [ Idle EXCEPT !.op = "getIpv6IfStatsTable", !.pc = "readdir" ] ]
  /\ UNCHANGED << envVars, registryVars, pciVars, pureVars >>

\* what reading /proc/net/dev_snmp6/<n> yields
Snmp6FileOf(n) == IF n \in Range(netdir) THEN FileOf(n, "dev_snmp6") ELSE Unreadable

\* The outcomes Promise.all over the entries of the table can settle with
\* (src/core.js:2455-2457).
Ipv6IfStatsTableOutcomes(ifNames, idx) ==
  LET entries == [ i \in DOMAIN ifNames |->
                     getIpv6IfStatsEntry(Snmp6FileOf(ifNames[i]), idx[i]) ]
      rejections == { entries[i] : i \in { j \in DOMAIN entries :
                                             entries[j].status = "rejected" } }
  IN  IF rejections # {} THEN rejections
      ELSE { Fulfilled([ i \in DOMAIN ifNames |-> entries[i].value ]) }

\* the reads of /proc/net/dev_snmp6/<ifName> of a table settle
snmp6FilesDone(c) ==
  /\ calls[c].pc = "reading6"
  /\ \E out \in Ipv6IfStatsTableOutcomes(calls[c].names, calls[c].idx) :
       calls' = [ calls EXCEPT ![c].pc = "done", ![c].result = out ]
  /\ UNCHANGED << envVars, registryVars, pciVars, pureVars >>

(***************************************************************************)
(* getIpRouteTable and getRouteInfo4 (src/core.js:1284-1293, 2858-2914).   *)
(***************************************************************************)
\* the interface names as the texts files hold
IfNameText == [ lo |-> <<"l", "o">>, eth0 |-> <<"e", "t", "h", "0">>, constructor |-> <<"c", "o", "n", "s", "t", "r", "u", "c", "t", "o", "r">> ]

\* the property name a text is, "" for a text that names no interface here
IfNameOfText(t) ==
  IF \E n \in Names : IfNameText[n] = t
    THEN CHOOSE n \in Names : IfNameText[n] = t
    ELSE ""

\* fields.shift() as its users take it: parseInt, the unary plus and the
\* string concatenation of hexToIp4 turn undefined into "undefined"
ShiftedField(fields, i) == IF i <= Len(fields) THEN fields[i] ELSE <<"u", "n", "d", "e", "f", "i", "n", "e", "d">>

\* the entry of a line of /proc/net/route, refcount and use deleted
\* (src/core.js:2888-2909)
RouteEntry(line, map) ==
  LET fields == SplitWhiteSpace(line)
  IN  [ interface |-> fields[1],
        interfaceIndex |-> GetProperty(map, IfNameOfText(fields[1])),
        destination |-> hexToIp4(ShiftedField(fields, 2)),
        gateway |-> hexToIp4(ShiftedField(fields, 3)),
        flags |-> ParseInt16(ShiftedField(fields, 4)),
        metric |-> ToNumber(ShiftedField(fields, 7)),
        mask |-> hexToIp4(ShiftedField(fields, 8)) ]

\* lines.forEach((line, i) => ...) from line i on (src/core.js:2869-2910)
RECURSIVE RouteLines(_, _, _, _)
RouteLines(lines, i, routes, map) ==
  IF i > Len(lines) THEN routes
  ELSE IF i = 1 \/ Len(lines[i]) = 0 THEN RouteLines(lines, i + 1, routes, map)
  ELSE RouteLines(lines, i + 1, Append(routes, RouteEntry(lines[i], map)), map)

\* getRouteInfo4 after addIfIndexes, given what reading /proc/net/route
\* yields and the registry
getRouteInfo4(file, map) ==
  IF ~file.ok THEN Rejected(ReadError("/proc/net/route"))
  ELSE Fulfilled(RouteLines(Split(file.text, "\n"), 1, <<>>, map))

\* /proc/net/route: the kernel has one route through each interface there is
RECURSIVE RouteFileLines(_)
RouteFileLines(dir) ==
  IF dir = <<>> THEN <<>>
  ELSE IfNameText[Head(dir)] \o <<"\t", "0", "0", "0", "1", "A", "8", "C", "0", "\t", "0", "0", "0", "0", "0", "0", "0", "0", "\t", "0", "0", "0", "1", "\t", "0", "\t", "0", "\t", "1", "0", "0", "\t", "0", "0", "F", "F", "F", "F", "F", "F", "\t", "0", "\t", "0", "\t", "0", " ", " ", " ">> \o <<"\n">> \o RouteFileLines(Tail(dir))

RouteFileOf(dir) == Readable(<<"I", "f", "a", "c", "e", "\t", "D", "e", "s", "t", "i", "n", "a", "t", "i", "o", "n", "\t", "G", "a", "t", "e", "w", "a", "y", " ", "\t", "F", "l", "a", "g", "s", "\t", "R", "e", "f", "C", "n", "t", "\t", "U", "s", "e", "\t", "M", "e", "t", "r", "i", "c", "\t", "M", "a", "s", "k">> \o <<"\n">> \o RouteFileLines(dir))

\* getIpRouteTable up to the readdir of addIfIndexes
getIpRouteTableCall(c) ==
  /\ calls[c].pc = "idle"
  /\ calls' = [ calls EXCEPT ![c] =
                  [ Idle EXCEPT !.op = "getIpRouteTable", !.pc = "readdir" ] ]
  /\ UNCHANGED << envVars, registryVars, pciVars, pureVars >>

\* /proc/net/route is read and its lines are turned into entries
routeFileDone(c) ==
  /\ calls[c].pc = "readroute"
  /\ calls' = [ calls EXCEPT ![c].pc = "done",
                             ![c].result = getRouteInfo4(RouteFileOf(netdir), ifIndexMap) ]
  /\ UNCHANGED << envVars, registryVars, pciVars, pureVars >>

\* the caller takes the result
Return(c) ==
  /\ calls[c].pc = "done"
  /\ calls' = [ calls EXCEPT ![c] = Idle ]
  /\ UNCHANGED << envVars, registryVars, pciVars, pureVars >>

(***************************************************************************)
(* The environment: interfaces come and go, files change.                  *)
(***************************************************************************)
InsertAt(s, pos, x) == SubSeq(s, 1, pos - 1) \o << x >> \o SubSeq(s, pos, Len(s))

RemoveAt(s, pos) == SubSeq(s, 1, pos - 1) \o SubSeq(s, pos + 1, Len(s))

InterfaceAppears(n, pos) ==
  /\ n \notin Range(netdir)
  /\ pos \in 1..(Len(netdir) + 1)
  /\ netdir' = InsertAt(netdir, pos, n)
  /\ UNCHANGED << sysfs, registryVars, pciVars, calls, pureVars >>

InterfaceDisappears(pos) ==
  /\ pos \in DOMAIN netdir
  /\ netdir' = RemoveAt(netdir, pos)
  /\ UNCHANGED << sysfs, registryVars, pciVars, calls, pureVars >>

\* The number of files that may differ from BaseFile.
MaxEdits == 1

\* The files of the hardware interface with at most MaxEdits of them changed.
EditedFiles ==
  LET changes == { "eth0" } \X (Files \cup ProcFiles)
      picks == { P \in SUBSET changes : Cardinality(P) <= MaxEdits }
  IN  UNION { [ P -> UNION { FileContents(nf[2]) : nf \in P } ] : P \in picks }

WellFormedFiles(fs) == \A nf \in DOMAIN fs : fs[nf] \in FileContents(nf[2])

(***************************************************************************)
(* hexToIp4 applied to inputs of a bounded set.                            *)
(***************************************************************************)
\* The number of two-digit groups of the longest input.
MaxOctets == 4

OctetTexts == { <<"0", "0">>, <<"0", "1">>, <<"7", "F">>, <<"A", "8">>, <<"C", "0">>, <<"f", "f">> }

RECURSIVE OctetStrings(_)
OctetStrings(k) ==
  IF k = 0 THEN { <<>> }
  ELSE { o \o t : o \in OctetTexts, t \in OctetStrings(k - 1) }

\* every input of MaxOctets groups and every shorter tail of one
HexInputs ==
  { SubSeq(t, i, Len(t)) : t \in OctetStrings(MaxOctets), i \in 1..(2 * MaxOctets + 1) }

CallHexToIp4 ==
  /\ ip = <<>>
  /\ ip' = hexToIp4(hex)
  /\ UNCHANGED << hex, bcastCall, coreVars, snmpVars, sysVars, connVars, histVars >>

(***************************************************************************)
(* ipAdEntBcastAddr applied to the addresses of a bounded set.             *)
(***************************************************************************)
PrefixLengths == 0..32

BcastNetworks == { << 192, 168, 1 >>, << 10, 0, 0 >> }

BcastLastOctets == { 0, 1, 2, 127, 128, 254, 255 }

\* the text os.networkInterfaces() gives as cidr
CidrText(octets, prefix) ==
  Join([ k \in DOMAIN octets |-> DecText(octets[k]) ], <<".">>) \o <<"/">> \o DecText(prefix)

BcastInputs ==
  { [ octets |-> Append(net, last), prefix |-> prefix,
      cidr |-> CidrText(Append(net, last), prefix), result |-> -1 ] :
      net \in BcastNetworks, last \in BcastLastOctets, prefix \in PrefixLengths }

CallIpAdEntBcastAddr ==
  /\ bcastCall.result = -1
  /\ bcastCall' = [ bcastCall EXCEPT !.result = ipAdEntBcastAddr(bcastCall.cidr) ]
  /\ UNCHANGED << hex, ip, coreVars, snmpVars, sysVars, connVars, histVars >>

(***************************************************************************)
(* getNetSnmpInfo4 applied to files of a bounded set.                      *)
(***************************************************************************)
\* The number of lines of the longest file.
MaxLines == 4

SnmpLineTexts ==
  { <<"I", "p", ":", " ", "A", " ", "B">>,
    <<"I", "p", ":", " ", "1", " ", "2">>,
    <<"I", "p", ":", " ", "1">>,
    <<"I", "p", ":">>,
    <<"I", "p", ":", " ", "A">>,
    <<"T", "c", "p", ":", " ", "A">>,
    <<"T", "c", "p", ":", " ", "7">>,
    <<>> }

RECURSIVE LinesUpTo(_)
LinesUpTo(k) ==
  IF k = 0 THEN { <<>> }
  ELSE LinesUpTo(k - 1) \cup
       { << l >> \o ls : l \in SnmpLineTexts,
                          ls \in { x \in LinesUpTo(k - 1) : Len(x) = k - 1 } }

SnmpFiles ==
  { Unreadable } \cup { Readable(Join(ls, <<"\n">>)) : ls \in LinesUpTo(MaxLines) }

CallGetNetSnmpInfo4 ==
  /\ snmpInfo = Pending
  /\ snmpInfo' = getNetSnmpInfo4(snmpFile)
  /\ UNCHANGED << snmpFile, icmpCall, coreVars, hexVars, sysVars, connVars, histVars >>

(***************************************************************************)
(* The ICMP counter accessors on files with an Icmp group.                 *)
(***************************************************************************)
IcmpHeaderLine ==
  <<"I", "c", "m", "p", ":", " ", "I", "n", "M", "s", "g", "s", " ", "I", "n", "E", "r", "r", "o", "r", "s", " ", "I", "n", "C", "s", "u", "m", "E", "r", "r", "o", "r", "s", " ", "I", "n", "D", "e", "s", "t", "U", "n", "r", "e", "a", "c", "h", "s", " ", "I", "n", "T", "i", "m", "e", "E", "x", "c", "d", "s", " ", "I", "n", "P", "a", "r", "m", "P", "r", "o", "b", "s", " ", "I", "n", "S", "r", "c", "Q", "u", "e", "n", "c", "h", "s", " ", "I", "n", "R", "e", "d", "i", "r", "e", "c", "t", "s", " ", "I", "n", "E", "c", "h", "o", "s", " ", "I", "n", "E", "c", "h", "o", "R", "e", "p", "s", " ", "I", "n", "T", "i", "m", "e", "s", "t", "a", "m", "p", "s", " ", "I", "n", "T", "i", "m", "e", "s", "t", "a", "m", "p", "R", "e", "p", "s", " ", "I", "n", "A", "d", "d", "r", "M", "a", "s", "k", "s", " ", "I", "n", "A", "d", "d", "r", "M", "a", "s", "k", "R", "e", "p", "s", " ", "O", "u", "t", "M", "s", "g", "s", " ", "O", "u", "t", "E", "r", "r", "o", "r", "s", " ", "O", "u", "t", "D", "e", "s", "t", "U", "n", "r", "e", "a", "c", "h", "s", " ", "O", "u", "t", "T", "i", "m", "e", "E", "x", "c", "d", "s", " ", "O", "u", "t", "P", "a", "r", "m", "P", "r", "o", "b", "s", " ", "O", "u", "t", "S", "r", "c", "Q", "u", "e", "n", "c", "h", "s", " ", "O", "u", "t", "R", "e", "d", "i", "r", "e", "c", "t", "s", " ", "O", "u", "t", "E", "c", "h", "o", "s", " ", "O", "u", "t", "E", "c", "h", "o", "R", "e", "p", "s", " ", "O", "u", "t", "T", "i", "m", "e", "s", "t", "a", "m", "p", "s", " ", "O", "u", "t", "T", "i", "m", "e", "s", "t", "a", "m", "p", "R", "e", "p", "s", " ", "O", "u", "t", "A", "d", "d", "r", "M", "a", "s", "k", "s", " ", "O", "u", "t", "A", "d", "d", "r", "M", "a", "s", "k", "R", "e", "p", "s">>

\* the value lines: the k-th field has the value k, 100 + k, 2^32 - 6 + k
IcmpValueLines ==
  { <<"I", "c", "m", "p", ":", " ", "1", " ", "2", " ", "3", " ", "4", " ", "5", " ", "6", " ", "7", " ", "8", " ", "9", " ", "1", "0", " ", "1", "1", " ", "1", "2", " ", "1", "3", " ", "1", "4", " ", "1", "5", " ", "1", "6", " ", "1", "7", " ", "1", "8", " ", "1", "9", " ", "2", "0", " ", "2", "1", " ", "2", "2", " ", "2", "3", " ", "2", "4", " ", "2", "5", " ", "2", "6", " ", "2", "7">>,
    <<"I", "c", "m", "p", ":", " ", "1", "0", "1", " ", "1", "0", "2", " ", "1", "0", "3", " ", "1", "0", "4", " ", "1", "0", "5", " ", "1", "0", "6", " ", "1", "0", "7", " ", "1", "0", "8", " ", "1", "0", "9", " ", "1", "1", "0", " ", "1", "1", "1", " ", "1", "1", "2", " ", "1", "1", "3", " ", "1", "1", "4", " ", "1", "1", "5", " ", "1", "1", "6", " ", "1", "1", "7", " ", "1", "1", "8", " ", "1", "1", "9", " ", "1", "2", "0", " ", "1", "2", "1", " ", "1", "2", "2", " ", "1", "2", "3", " ", "1", "2", "4", " ", "1", "2", "5", " ", "1", "2", "6", " ", "1", "2", "7">>,
    <<"I", "c", "m", "p", ":", " ", "4", "2", "9", "4", "9", "6", "7", "2", "9", "1", " ", "4", "2", "9", "4", "9", "6", "7", "2", "9", "2", " ", "4", "2", "9", "4", "9", "6", "7", "2", "9", "3", " ", "4", "2", "9", "4", "9", "6", "7", "2", "9", "4", " ", "4", "2", "9", "4", "9", "6", "7", "2", "9", "5", " ", "4", "2", "9", "4", "9", "6", "7", "2", "9", "6", " ", "4", "2", "9", "4", "9", "6", "7", "2", "9", "7", " ", "4", "2", "9", "4", "9", "6", "7", "2", "9", "8", " ", "4", "2", "9", "4", "9", "6", "7", "2", "9", "9", " ", "4", "2", "9", "4", "9", "6", "7", "3", "0", "0", " ", "4", "2", "9", "4", "9", "6", "7", "3", "0", "1", " ", "4", "2", "9", "4", "9", "6", "7", "3", "0", "2", " ", "4", "2", "9", "4", "9", "6", "7", "3", "0", "3", " ", "4", "2", "9", "4", "9", "6", "7", "3", "0", "4", " ", "4", "2", "9", "4", "9", "6", "7", "3", "0", "5", " ", "4", "2", "9", "4", "9", "6", "7", "3", "0", "6", " ", "4", "2", "9", "4", "9", "6", "7", "3", "0", "7", " ", "4", "2", "9", "4", "9", "6", "7", "3", "0", "8", " ", "4", "2", "9", "4", "9", "6", "7", "3", "0", "9", " ", "4", "2", "9", "4", "9", "6", "7", "3", "1", "0", " ", "4", "2", "9", "4", "9", "6", "7", "3", "1", "1", " ", "4", "2", "9", "4", "9", "6", "7", "3", "1", "2", " ", "4", "2", "9", "4", "9", "6", "7", "3", "1", "3", " ", "4", "2", "9", "4", "9", "6", "7", "3", "1", "4", " ", "4", "2", "9", "4", "9", "6", "7", "3", "1", "5", " ", "4", "2", "9", "4", "9", "6", "7", "3", "1", "6", " ", "4", "2", "9", "4", "9", "6", "7", "3", "1", "7">> }

IcmpFiles ==
  { Readable(IcmpHeaderLine \o <<"\n">> \o v \o <<"\n">>) : v \in IcmpValueLines }
  \cup { Readable(<<"T", "c", "p", ":", " ", "A", "\n", "T", "c", "p", ":", " ", "7", "\n">>), Unreadable }

\* an accessor getIcmp<Field> is called
CallGetIcmp(field) ==
  /\ icmpCall' = [ field |-> field, result |-> getIcmp(field, getNetSnmpInfo4(snmpFile)) ]
  /\ UNCHANGED << snmpFile, snmpInfo, coreVars, hexVars, sysVars, connVars, histVars >>

(***************************************************************************)
(* The setters of the identity fields, called with values of a small set.  *)
(***************************************************************************)
SysValues == { "x", "y" }

SysSetters ==
  { "setSysDescr", "setSysObjectId", "setSysContact", "setSysName",
    "setSysLocation", "setSysServices" }

ConstructorArgs ==
  [ sysDescr |-> "descr", sysObjectID |-> "oid", sysContact |-> "contact",
    sysName |-> "name", sysLocation |-> "location", sysServices |-> "services" ]

Constructed ==
  Constructor(ConstructorArgs.sysDescr, ConstructorArgs.sysObjectID,
              ConstructorArgs.sysContact, ConstructorArgs.sysName,
              ConstructorArgs.sysLocation, ConstructorArgs.sysServices)

CallSetter(op, v) ==
  /\ cache' = CASE op = "setSysDescr" -> setSysDescr(cache, v)
                [] op = "setSysObjectId" -> setSysObjectId(cache, v)
                [] op = "setSysContact" -> setSysContact(cache, v)
                [] op = "setSysName" -> setSysName(cache, v)
                [] op = "setSysLocation" -> setSysLocation(cache, v)
                [] op = "setSysServices" -> setSysServices(cache, v)
  /\ sysCall' = [ op |-> op, value |-> v ]
  /\ UNCHANGED << sysArgs, coreVars, hexVars, snmpVars, connVars, histVars >>

(***************************************************************************)
(* getTcpConnTable and getUdpTable (src/core.js:1910-1918, 2031-2039).     *)
(***************************************************************************)
ConnIdle ==
  [ op |-> "none", bResolve |-> FALSE, pc |-> "idle", conns |-> <<>>,
    lookups |-> <<>>, result |-> Pending ]

\* The call up to the callback that issues the lookups (src/core.js:
\* 2929-3029, 3049-3128): the file is read and parsed; without bResolve, or
\* when that fails, the outcome is there; with it one resolver.reverse per
\* entry is pending.
ConnTableCall(op, proto, bResolve) ==
  /\ connCall.pc = "idle"
  /\ LET parsed == ParseConns(procNet[proto], proto)
     IN  connCall' =
           IF parsed.status = "rejected" \/ ~bResolve
             THEN [ ConnIdle EXCEPT !.op = op, !.bResolve = bResolve, !.pc = "done",
                                    !.conns = IF parsed.status = "rejected" THEN <<>>
                                              ELSE parsed.value,
                                    !.result = parsed ]
             ELSE [ ConnIdle EXCEPT !.op = op, !.bResolve = bResolve,
                                    !.pc = "resolving", !.conns = parsed.value,
                                    !.lookups = [ i \in DOMAIN parsed.value |-> "pending" ] ]
  /\ UNCHANGED << procNet, coreVars, hexVars, snmpVars, sysVars, histVars >>

getTcpConnTableCall(bResolve) == ConnTableCall("getTcpConnTable", "tcp", bResolve)

getUdpTableCall(bResolve) == ConnTableCall("getUdpTable", "udp", bResolve)

\* what a reverse lookup can resolve with
HostLists == { << "host.example" >> }

\* the name of the property the host names are stored in
RemHosts == [ getTcpConnTable |-> "tcpConnRemHosts", getUdpTable |-> "udpRemHosts" ]

\* resolver.reverse(...) of entry i is fulfilled: its then-callback stores
\* the host names in the entry (src/core.js:3021-3027, 3120-3126)
reverseFulfilled(i, hosts) ==
  /\ connCall.pc = "resolving"
  /\ i \in DOMAIN connCall.lookups
  /\ connCall.lookups[i] = "pending"
  /\ connCall' = [ connCall EXCEPT
                     !.lookups[i] = "fulfilled",
                     !.conns[i] = SetProperty(@, RemHosts[connCall.op], hosts) ]
  /\ UNCHANGED << procNet, coreVars, hexVars, snmpVars, sysVars, histVars >>

\* resolver.reverse(...) of entry i is rejected
reverseRejected(i) ==
  /\ connCall.pc = "resolving"
  /\ i \in DOMAIN connCall.lookups
  /\ connCall.lookups[i] = "pending"
  /\ connCall' = [ connCall EXCEPT !.lookups[i] = "rejected" ]
  /\ UNCHANGED << procNet, coreVars, hexVars, snmpVars, sysVars, histVars >>

\* every lookup has settled: Promise.allSettled is fulfilled and its
\* then-callback gives the entries (src/core.js:3032-3033, 3131-3132)
allSettledDone ==
  /\ connCall.pc = "resolving"
  /\ \A i \in DOMAIN connCall.lookups : connCall.lookups[i] # "pending"
  /\ connCall' = [ connCall EXCEPT !.pc = "done",
                     !.result = AllSettled(connCall.conns, connCall.lookups) ]
  /\ UNCHANGED << procNet, coreVars, hexVars, snmpVars, sysVars, histVars >>

\* the caller takes the result
connReturn ==
  /\ connCall.pc = "done"
  /\ connCall' = ConnIdle
  /\ UNCHANGED << procNet, coreVars, hexVars, snmpVars, sysVars, histVars >>

(***************************************************************************)
(* A caller that calls one table accessor after another and keeps the      *)
(* result of the last call.                                                *)
(***************************************************************************)
\* no call is in progress
Quiet == connCall.pc = "idle" /\ \A c \in Callers : calls[c].pc = "idle"

\* the caller takes the result of an accessor of the interfaces and keeps it
ReturnKept(c) ==
  /\ calls[c].pc = "done"
  /\ prev' = [ op |-> calls[c].op, bResolve |-> FALSE, result |-> calls[c].result ]
  /\ calls' = [ calls EXCEPT ![c] = Idle ]
  /\ UNCHANGED << envVars, registryVars, pciVars, hexVars, snmpVars, sysVars, connVars, mib >>

\* the caller takes the result of getTcpConnTable or getUdpTable and keeps it
connReturnKept ==
  /\ connCall.pc = "done"
  /\ prev' = [ op |-> connCall.op, bResolve |-> connCall.bResolve,
               result |-> connCall.result ]
  /\ connCall' = ConnIdle
  /\ UNCHANGED << procNet, coreVars, hexVars, snmpVars, sysVars, mib >>

\* The number of lines after the header line of the longest file.
MaxConns == 2

ConnHeaderLine == <<"s", "l", " ", "l", "o", "c", "a", "l", " ", "r", "e", "m", " ", "s", "t">>

\* the state fields: the kernel's codes 1 to 12, and 0 and 13
StateTexts ==
  { <<"0", "0">>, <<"0", "1">>, <<"0", "2">>, <<"0", "3">>, <<"0", "4">>,
    <<"0", "5">>, <<"0", "6">>, <<"0", "7">>, <<"0", "8">>, <<"0", "9">>,
    <<"0", "A">>, <<"0", "B">>, <<"0", "C">>, <<"0", "D">> }

TcpLine(st) == <<" ", "0", ":", " ", "0", "1", "0", "0", "0", "0", "7", "F", ":", "0", "0", "3", "5", " ", "0", "1", "0", "1", "A", "8", "C", "0", ":", "0", "1", "B", "B", " ">> \o st

UdpLine(rem) == <<" ", "0", ":", " ", "0", "0", "0", "0", "0", "0", "0", "0", ":", "0", "0", "3", "5", " ">> \o rem \o <<" ", "0", "7">>

TcpLineTexts == { TcpLine(st) : st \in StateTexts } \cup { <<>> }

UdpLineTexts == { UdpLine(<<"0", "0", "0", "0", "0", "0", "0", "0", ":", "0", "0", "0", "0">>), UdpLine(<<"0", "1", "0", "1", "A", "8", "C", "0", ":", "0", "1", "B", "B">>), <<>> }

RECURSIVE SeqsUpTo(_, _)
SeqsUpTo(S, k) ==
  IF k = 0 THEN { <<>> }
  ELSE SeqsUpTo(S, k - 1) \cup
       { << x >> \o xs : x \in S, xs \in { y \in SeqsUpTo(S, k - 1) : Len(y) = k - 1 } }

ConnFile(ls) == Readable(Join(<< ConnHeaderLine >> \o ls, <<"\n">>))

TcpFiles == { Unreadable } \cup { ConnFile(ls) : ls \in SeqsUpTo(TcpLineTexts, MaxConns) }

UdpFiles == { Unreadable } \cup { ConnFile(ls) : ls \in SeqsUpTo(UdpLineTexts, MaxConns) }

TcpFileAtStart == ConnFile(<< TcpLine(<<"0", "A">>), <<>> >>)

UdpFileAtStart == ConnFile(<< UdpLine(<<"0", "0", "0", "0", "0", "0", "0", "0", ":", "0", "0", "0", "0">>), <<>> >>)

(***************************************************************************)
(* Specifications.                                                         *)
(***************************************************************************)
NoEdits == [ nf \in {} |-> Unreadable ]

InitEnv ==
  /\ netdir = << "lo", "eth0" >>
  /\ sysfs = NoEdits

NoBcastCall == [ octets |-> <<>>, prefix |-> 0, cidr |-> <<>>, result |-> -1 ]

InitHex == hex = <<>> /\ ip = <<>> /\ bcastCall = NoBcastCall

NoIcmpCall == [ field |-> <<>>, result |-> Pending ]

InitSnmp == snmpFile = Unreadable /\ snmpInfo = Pending /\ icmpCall = NoIcmpCall

\* nothing is given to the parsers and helpers that are exercised on their own
InitSys ==
  /\ sysArgs = ConstructorArgs
  /\ cache = Constructed
  /\ sysCall = [ op |-> "constructor", value |-> "" ]

InitConn ==
  /\ procNet = [ tcp |-> Unreadable, udp |-> Unreadable ]
  /\ connCall = ConnIdle

(***************************************************************************)
(* The ifTable of the agent's MIB and its fills                            *)
(* (src/node-net-snmp-if.js:94, 168-247).  The store of the rows is the    *)
(* SNMP engine's; it is taken as the fills use it: a table keeps one row   *)
(* per value of its index column, which is the first column of ifTable;    *)
(* mib.getTableColumnCells yields the rows there are and mib.deleteTableRow *)
(* takes one away.                                                         *)
(***************************************************************************)
\* The number of fills that are started.
MaxFills == 3

\* The number of times the interfaces change while the table is served.
MaxChanges == 1

\* the columns of a row, in the order of row.push
\* (src/node-net-snmp-if.js:221-242)
IfTableColumns ==
  << "ifIndex", "ifDescr", "ifType", "ifMtu", "ifSpeed", "ifPhysAddress",
     "ifAdminStatus", "ifOperStatus", "ifLastChange", "ifInOctets",
     "ifInUcastPkts", "ifInNUcastPkts", "ifInDiscards", "ifInErrors",
     "ifInUnknownProtos", "ifOutOctets", "ifOutUcastPkts", "ifOutNUcastPkts",
     "ifOutDiscards", "ifOutErrors", "ifOutQLen", "ifSpecific" >>

\* the row made of an entry of getIfTable (src/node-net-snmp-if.js:219-242)
IfTableRow(entry) == [ i \in DOMAIN IfTableColumns |-> entry[IfTableColumns[i]] ]

\* mib.addTableRow(provider.name, row) (src/node-net-snmp-if.js:244)
AddTableRow(rows, row) == { r \in rows : r[1] # row[1] } \cup { row }

\* entries.forEach((entry) => { ... }) (src/node-net-snmp-if.js:215-245)
RECURSIVE AddEntries(_, _)
AddEntries(rows, entries) ==
  IF entries = <<>> THEN rows
  ELSE AddEntries(AddTableRow(rows, IfTableRow(Head(entries))), Tail(entries))

\* populate without the clearing of the table
KeptRows(rows, bVirgin) == rows

\* the rows populate leaves before it calls fAddEntries
\* (src/node-net-snmp-if.js:178-187)
ClearedRows(rows, bVirgin) == IF bVirgin THEN rows ELSE {}

NoFill == [ kind |-> "none", alone |-> TRUE, before |-> {} ]

NoLastFill ==
  [ kind |-> "none", alone |-> TRUE, before |-> {}, entries |-> <<>>,
    fulfilled |-> FALSE, done |-> FALSE ]

\* rows: the rows of ifTable; registered: provider.handler is set;
\* fill: the fill a caller is in, whether no other fill was in progress
\* during it and the rows there were when it began; last: history, the fill
\* that ended last, the entries it was given and whether it called
\* mibRequest.done(); fills, changes: history, what has happened how often
NoMib ==
  [ rows |-> {}, registered |-> FALSE,
    fill |-> [ c \in OverlappingCallers |-> NoFill ],
    last |-> NoLastFill, fills |-> 0, changes |-> 0 ]

FillInProgress == { c \in DOMAIN mib.fill : mib.fill[c].kind # "none" }

\* populate(bVirgin) up to the first await of getIfTable: the rows are
\* cleared and linuxLib.getIfTable() is called
\* (src/node-net-snmp-if.js:170-192, 211-214)
populate(c, kind, bVirgin) ==
  /\ calls[c].pc = "idle"
  /\ mib.fills < MaxFills
  /\ mib' = [ mib EXCEPT
               !.rows = ClearedRows(mib.rows, bVirgin),
               !.registered = TRUE,
               !.fill = [ o \in DOMAIN mib.fill |->
                            IF o = c
                              THEN [ kind |-> kind, alone |-> FillInProgress = {},
                                     before |-> mib.rows ]
                              ELSE [ mib.fill[o] EXCEPT
                                       !.alone = (mib.fill[o].kind = "none") ] ],
               !.fills = @ + 1 ]
  /\ calls' = [ calls EXCEPT ![c] =
                  [ Idle EXCEPT !.op = "getIfTable",
                                !.pc = IF pciIds.loaded THEN "readdir" ELSE "parse" ] ]
  /\ parses' = IF pciIds.loaded THEN parses ELSE parses + 1
  /\ UNCHANGED << envVars, registryVars, pciIds, hexVars, snmpVars, sysVars, connVars, prev >>

\* addIfTableHandler(mib.getProvider("ifEntry")): the handler is set and
\* the first fill is started and not awaited
\* (src/node-net-snmp-if.js:94, 194-203, 209-213)
addIfTableHandler(c) == ~mib.registered /\ populate(c, "initial", TRUE)

\* provider.handler(mibRequest) up to the first await of getIfTable
\* (src/node-net-snmp-if.js:194-199)
ifTableHandler(c) == mib.registered /\ populate(c, "request", FALSE)

\* getIfTable has settled: the entries are added, populate is over and the
\* handler calls mibRequest.done(); a rejection ends the fill with neither
\* (src/node-net-snmp-if.js:191, 197-198, 214-245)
fAddEntriesDone(c) ==
  /\ calls[c].pc = "done"
  /\ mib.fill[c].kind # "none"
  /\ LET res == calls[c].result
         ok == res.status = "fulfilled"
     IN  mib' = [ mib EXCEPT
                    !.rows = IF ok THEN AddEntries(mib.rows, res.value) ELSE mib.rows,
                    !.fill[c] = NoFill,
                    !.last = [ kind |-> mib.fill[c].kind, alone |-> mib.fill[c].alone,
                               before |-> mib.fill[c].before,
                               entries |-> IF ok THEN res.value ELSE <<>>,
                               fulfilled |-> ok,
                               done |-> ok /\ mib.fill[c].kind = "request" ] ]
  /\ calls' = [ calls EXCEPT ![c] = Idle ]
  /\ UNCHANGED << envVars, registryVars, pciVars, hexVars, snmpVars, sysVars, connVars, prev >>

\* an interface appears while the table is served
AppearsWhileServed(n, pos) ==
  /\ mib.changes < MaxChanges
  /\ n \notin Range(netdir)
  /\ pos \in 1..(Len(netdir) + 1)
  /\ netdir' = InsertAt(netdir, pos, n)
  /\ mib' = [ mib EXCEPT !.changes = @ + 1 ]
  /\ UNCHANGED << sysfs, registryVars, pciVars, calls, hexVars, snmpVars, sysVars, connVars, prev >>

\* an interface disappears while the table is served
DisappearsWhileServed(pos) ==
  /\ mib.changes < MaxChanges
  /\ pos \in DOMAIN netdir
  /\ netdir' = RemoveAt(netdir, pos)
  /\ mib' = [ mib EXCEPT !.changes = @ + 1 ]
  /\ UNCHANGED << sysfs, registryVars, pciVars, calls, hexVars, snmpVars, sysVars, connVars, prev >>

NoPrev == [ op |-> "none", bResolve |-> FALSE, result |-> Pending ]

InitHist == prev = NoPrev /\ mib = NoMib

InitPure == InitHex /\ InitSnmp /\ InitSys /\ InitConn /\ InitHist

Init == InitProgram /\ InitEnv /\ InitPure

\* hexToIp4 is about to be called with any of the inputs.
InitHexInputs ==
  /\ InitProgram /\ InitEnv /\ InitSnmp /\ InitSys /\ InitConn /\ InitHist
  /\ hex \in HexInputs /\ ip = <<>> /\ bcastCall = NoBcastCall

\* The registry and the accessors while interfaces come and go.
Next ==
  \/ \E c \in Callers : getIfNumberCall(c)
  \/ \E c \in Callers : getIfTableCall(c)
  \/ \E c \in Callers, n \in Names : getIfEntryCall(c, n)
  \/ \E c \in Callers : parsePciIdsDone(c)
  \/ \E c \in Callers : readdirDone(c)
  \/ \E c \in Callers : addIfIndexesDone(c)
  \/ \E c \in Callers : readFilesDone(c)
  \/ \E c \in Callers : Return(c)
  \/ \E n \in Names, pos \in 1..Cardinality(Names) : InterfaceAppears(n, pos)
  \/ \E pos \in 1..Cardinality(Names) : InterfaceDisappears(pos)

Spec == Init /\ [][Next]_vars

\* getIfEntry and getIfTable over every content of the files of the hardware
\* interface.
InitFiles ==
  /\ InitProgram /\ InitPure
  /\ netdir = << "lo", "eth0" >>
  /\ sysfs \in { fs \in EditedFiles : WellFormedFiles(fs) }

NextFiles ==
  \/ \E c \in Callers : getIfTableCall(c)
  \/ \E c \in Callers : getIpv6IfStatsTableCall(c)
  \/ \E c \in Callers : snmp6FilesDone(c)
  \/ \E c \in Callers : getIfEntryCall(c, "eth0")
  \/ \E c \in Callers : parsePciIdsDone(c)
  \/ \E c \in Callers : readdirDone(c)
  \/ \E c \in Callers : addIfIndexesDone(c)
  \/ \E c \in Callers : readFilesDone(c)
  \/ \E c \in Callers : Return(c)

SpecFiles == InitFiles /\ [][NextFiles]_vars

\* hexToIp4 on its own.
NextHex == CallHexToIp4

SpecHex == InitHexInputs /\ [][NextHex]_vars

\* ipAdEntBcastAddr on its own.
InitBcastInputs ==
  /\ InitProgram /\ InitEnv /\ InitSnmp /\ InitSys /\ InitConn /\ InitHist
  /\ hex = <<>> /\ ip = <<>>
  /\ bcastCall \in BcastInputs

NextBcast == CallIpAdEntBcastAddr

SpecBcast == InitBcastInputs /\ [][NextBcast]_vars

\* getNetSnmpInfo4 on its own.
InitSnmpInputs ==
  /\ InitProgram /\ InitEnv /\ InitHex /\ InitSys /\ InitConn /\ InitHist
  /\ snmpFile \in SnmpFiles /\ snmpInfo = Pending /\ icmpCall = NoIcmpCall

NextSnmp == CallGetNetSnmpInfo4

SpecSnmp == InitSnmpInputs /\ [][NextSnmp]_vars

\* The ICMP counter accessors, called in any order.
InitIcmpInputs ==
  /\ InitProgram /\ InitEnv /\ InitHex /\ InitSys /\ InitConn /\ InitHist
  /\ snmpFile \in IcmpFiles /\ snmpInfo = Pending /\ icmpCall = NoIcmpCall

NextIcmp == \E field \in IcmpFields : CallGetIcmp(field)

SpecIcmp == InitIcmpInputs /\ [][NextIcmp]_vars

\* The identity fields under any sequence of setter calls.
NextSys ==
  \/ \E v \in SysValues : CallSetter("setSysDescr", v)
  \/ \E v \in SysValues : CallSetter("setSysObjectId", v)
  \/ \E v \in SysValues : CallSetter("setSysContact", v)
  \/ \E v \in SysValues : CallSetter("setSysName", v)
  \/ \E v \in SysValues : CallSetter("setSysLocation", v)
  \/ \E v \in SysValues : CallSetter("setSysServices", v)

SpecSys == Init /\ [][NextSys]_vars

\* The tables that join other sources with the registry, while interfaces
\* come and go.
NextTables ==
  \/ \E c \in Callers : getIfNumberCall(c)
  \/ \E c \in Callers : getIpAddrTableCall(c)
  \/ \E c \in Callers : getIpv6AddrTableCall(c)
  \/ \E c \in Callers : getIpRouteTableCall(c)
  \/ \E c \in Callers : readdirDone(c)
  \/ \E c \in Callers : addIfIndexesDone(c)
  \/ \E c \in Callers : addrEntriesDone(c)
  \/ \E c \in Callers : routeFileDone(c)
  \/ \E c \in Callers : Return(c)
  \/ \E n \in Names, pos \in 1..Cardinality(Names) : InterfaceAppears(n, pos)
  \/ \E pos \in 1..Cardinality(Names) : InterfaceDisappears(pos)

SpecTables == Init /\ [][NextTables]_vars

InitOverlap ==
  /\ ifIndexMap = EmptyMap
  /\ nextIfIndex = 1
  /\ pciIds = PciUndefined
  /\ parses = 0
  /\ calls = [ c \in OverlappingCallers |-> Idle ]
  /\ seenOrder = <<>>
  /\ InitEnv /\ InitPure

NextOverlap ==
  \/ \E c \in OverlappingCallers : initCall(c)
  \/ \E c \in OverlappingCallers : getIfNumberCall(c)
  \/ \E c \in OverlappingCallers : getIfTableCall(c)
  \/ \E c \in OverlappingCallers, n \in Names : getIfEntryCall(c, n)
  \/ \E c \in OverlappingCallers : initParsed(c)
  \/ \E c \in OverlappingCallers : parsePciIdsDone(c)
  \/ \E c \in OverlappingCallers : readdirDone(c)
  \/ \E c \in OverlappingCallers : addIfIndexesDone(c)
  \/ \E c \in OverlappingCallers : readFilesDone(c)
  \/ \E c \in OverlappingCallers : Return(c)

SpecOverlap == InitOverlap /\ [][NextOverlap]_vars

\* Enumerations that overlap while interfaces come and go.
NextEnum ==
  \/ \E c \in OverlappingCallers : getIfNumberCall(c)
  \/ \E c \in OverlappingCallers : readdirDone(c)
  \/ \E c \in OverlappingCallers : addIfIndexesDone(c)
  \/ \E c \in OverlappingCallers : Return(c)
  \/ \E n \in Names, pos \in 1..Cardinality(Names) : InterfaceAppears(n, pos)
  \/ \E pos \in 1..Cardinality(Names) : InterfaceDisappears(pos)

SpecEnum == InitOverlap /\ [][NextEnum]_vars

\* The agent after await linuxLib.init() (src/node-net-snmp-if.js:44):
\* ifTable is registered and then requested, also while a fill is in
\* progress, and the interfaces change.
InitMib ==
  /\ ifIndexMap = EmptyMap
  /\ nextIfIndex = 1
  /\ pciIds = PciLoaded
  /\ parses = 1
  /\ calls = [ c \in OverlappingCallers |-> Idle ]
  /\ seenOrder = <<>>
  /\ InitEnv /\ InitPure

NextMib ==
  \/ \E c \in OverlappingCallers : addIfTableHandler(c)
  \/ \E c \in OverlappingCallers : ifTableHandler(c)
  \/ \E c \in OverlappingCallers : readdirDone(c)
  \/ \E c \in OverlappingCallers : addIfIndexesDone(c)
  \/ \E c \in OverlappingCallers : readFilesDone(c)
  \/ \E c \in OverlappingCallers : fAddEntriesDone(c)
  \/ \E n \in Names, pos \in 1..Cardinality(Names) : AppearsWhileServed(n, pos)
  \/ \E pos \in 1..Cardinality(Names) : DisappearsWhileServed(pos)

SpecMib == InitMib /\ [][NextMib]_vars

\* between two calls an interface appears: what was kept is of another
\* state of the kernel
AppearsBetweenCalls(n, pos) ==
  /\ Quiet
  /\ n \notin Range(netdir)
  /\ pos \in 1..(Len(netdir) + 1)
  /\ netdir' = InsertAt(netdir, pos, n)
  /\ prev' = NoPrev
  /\ UNCHANGED << sysfs, registryVars, pciVars, calls, hexVars, snmpVars, sysVars, connVars, mib >>

\* between two calls an interface disappears
DisappearsBetweenCalls(pos) ==
  /\ Quiet
  /\ pos \in DOMAIN netdir
  /\ netdir' = RemoveAt(netdir, pos)
  /\ prev' = NoPrev
  /\ UNCHANGED << sysfs, registryVars, pciVars, calls, hexVars, snmpVars, sysVars, connVars, mib >>

\* The table accessors called one after the other; the kernel's state
\* changes between calls only.
InitTwice ==
  /\ InitProgram /\ InitEnv /\ InitHex /\ InitSnmp /\ InitSys /\ InitHist
  /\ procNet = [ tcp |-> TcpFileAtStart, udp |-> UdpFileAtStart ]
  /\ connCall = ConnIdle

NextTwice ==
  \/ Quiet /\ \E c \in Callers : getIfTableCall(c)
  \/ Quiet /\ \E c \in Callers : getIpAddrTableCall(c)
  \/ Quiet /\ \E c \in Callers : getIpv6AddrTableCall(c)
  \/ Quiet /\ \E c \in Callers : getIpv6IfStatsTableCall(c)
  \/ Quiet /\ \E c \in Callers : getIpRouteTableCall(c)
  \/ Quiet /\ \E c \in Callers : getIpNetToMediaTableCall(c)
  \/ Quiet /\ \E bResolve \in BOOLEAN : getTcpConnTableCall(bResolve)
  \/ Quiet /\ \E bResolve \in BOOLEAN : getUdpTableCall(bResolve)
  \/ \E c \in Callers : parsePciIdsDone(c)
  \/ \E c \in Callers : readdirDone(c)
  \/ \E c \in Callers : addIfIndexesDone(c)
  \/ \E c \in Callers : readFilesDone(c)
  \/ \E c \in Callers : addrEntriesDone(c)
  \/ \E c \in Callers : snmp6FilesDone(c)
  \/ \E c \in Callers : routeFileDone(c)
  \/ \E c \in Callers : ReturnKept(c)
  \/ \E i \in 1..MaxConns, hosts \in HostLists : reverseFulfilled(i, hosts)
  \/ \E i \in 1..MaxConns : reverseRejected(i)
  \/ allSettledDone
  \/ connReturnKept
  \/ \E n \in Names, pos \in 1..Cardinality(Names) : AppearsBetweenCalls(n, pos)
  \/ \E pos \in 1..Cardinality(Names) : DisappearsBetweenCalls(pos)

SpecTwice == InitTwice /\ [][NextTwice]_vars

\* getTcpConnTable and getUdpTable over the files of a bounded set, with
\* and without reverse resolution.
InitConnInputs ==
  /\ InitProgram /\ InitEnv /\ InitHex /\ InitSnmp /\ InitSys /\ InitHist
  /\ procNet \in [ tcp : TcpFiles, udp : { UdpFileAtStart } ]
                \cup [ tcp : { TcpFileAtStart }, udp : UdpFiles ]
  /\ connCall = ConnIdle

NextConn ==
  \/ \E bResolve \in BOOLEAN : getTcpConnTableCall(bResolve)
  \/ \E bResolve \in BOOLEAN : getUdpTableCall(bResolve)
  \/ \E i \in 1..(MaxConns + 1), hosts \in HostLists : reverseFulfilled(i, hosts)
  \/ \E i \in 1..(MaxConns + 1) : reverseRejected(i)
  \/ allSettledDone
  \/ connReturn

SpecConn == InitConnInputs /\ [][NextConn]_vars

(***************************************************************************)
(* Properties of the interface index registry.                             *)
(***************************************************************************)
Number(k) == [ kind |-> "number", n |-> k ]

\* a getIfTable call that has resolved with its rows
TableResolved(c) ==
  /\ calls[c].op = "getIfTable"
  /\ calls[c].pc = "done"
  /\ calls[c].result.status = "fulfilled"

\* C1: whatever enumerations run while interfaces appear, disappear and
\* reappear, an entry of the registry is never changed or removed once it
\* is written: a name keeps the index it was first given.
C1_IndexKept ==
  [][ \A n \in DOMAIN ifIndexMap :
        n \in DOMAIN ifIndexMap' /\ ifIndexMap'[n] = ifIndexMap[n] ]_vars

\* C1, witness: "lo" was enumerated first, left the listing and came back
\* behind "eth0"; a table built from the new listing reports it with its old
\* index 1.
C1_Witness ==
  \E c \in DOMAIN calls :
    /\ TableResolved(c)
    /\ netdir = << "eth0", "lo" >>
    /\ calls[c].names = << "eth0", "lo" >>
    /\ ifIndexMap["lo"] = 1 /\ ifIndexMap["eth0"] = 2
    /\ calls[c].result.value[2].ifIndex = Number(1)
    /\ calls[c].result.value[1].ifIndex = Number(2)

\* C2: no two distinct interface names of the registry have the same index.
C2_IndexesDistinct ==
  \A a, b \in DOMAIN ifIndexMap : a # b => ifIndexMap[a] # ifIndexMap[b]

\* C2, witness: the registry holds two names.
C2_Witness ==
  /\ DOMAIN ifIndexMap = { "lo", "eth0" }
  /\ ifIndexMap["eth0"] = 1 /\ ifIndexMap["lo"] = 2

\* C3: indices follow the first-seen order of the enumerations, without
\* gaps: the k-th distinct name that an enumeration has met has index k.
C3_FirstSeenOrder ==
  \A k \in DOMAIN seenOrder :
    /\ seenOrder[k] \in DOMAIN ifIndexMap
    /\ ifIndexMap[seenOrder[k]] = k

\* the ifIndex reader of a getIfEntry call has settled
IfIndexSettled(c) ==
  /\ calls[c].op = "getIfEntry"
  /\ calls[c].pc \in { "reading", "done" }

\* C4: when the index of a name is asked for and the registry has no entry
\* for the name, an enumeration is made, and if the registry still has no
\* entry for it the ifIndex reader fails with "Interface <name> does not
\* exist"; the name is given no index.
C4_UnknownNameFails ==
  \A c \in DOMAIN calls :
    /\ calls[c].op = "getIfEntry" /\ calls[c].arg \notin DOMAIN ifIndexMap
         => calls[c].pc \in { "readdir", "gotdir", "reading", "done" }
    /\ IfIndexSettled(c) /\ calls[c].arg \notin DOMAIN ifIndexMap
         => calls[c].idx[1] = Rejected(NotExistError(calls[c].arg))

\* C5: getIfTable returns one record per enumerated name, in enumeration
\* order, each with the registry index of its name; with a fresh registry and
\* the listing "lo", "eth0" these are two records with ifIndex 1 and 2.
C5_TableRows ==
  \A c \in DOMAIN calls :
    TableResolved(c) =>
      LET rows == calls[c].result.value
          ifNames == calls[c].names
      IN  /\ Len(rows) = Len(ifNames)
          /\ \A i \in DOMAIN ifNames :
               /\ rows[i].ifDescr.Interface = ifNames[i]
               /\ ifNames[i] \in DOMAIN ifIndexMap
               /\ rows[i].ifIndex = Number(ifIndexMap[ifNames[i]])
          /\ (ifNames = << "lo", "eth0" >> /\ seenOrder = ifNames)
               => /\ rows[1].ifIndex = Number(1)
                  /\ rows[2].ifIndex = Number(2)

(***************************************************************************)
(* Properties of the interface record (checked under SpecFiles, where the  *)
(* files do not change during a call).                                     *)
(***************************************************************************)
\* a getIfEntry call that has resolved with its record
EntryResolved(c) ==
  /\ calls[c].op = "getIfEntry"
  /\ calls[c].pc = "done"
  /\ calls[c].result.status = "fulfilled"

\* the number a file of interface n holds
FileNumber(n, f) == ToNumber(Trim(FileOf(n, f).text))

\* an integer in 0..2^32-1
IsUnsigned32(x) == ~x.nan /\ ~x.neg /\ \A i \in Limbs : i > 2 => x.mag[i] = 0

\* x mod 2^32 in the mathematical sense, which is never negative
Mod32(x) ==
  LET r == NumRem(x, COUNTER_WRAP_AT)
  IN  IF r.neg THEN NumAdd(r, COUNTER_WRAP_AT) ELSE r

\* the quantity a Counter32 field of the record of interface n reports
CounterQuantity(n, field) ==
  CASE field = "ifInOctets" -> FileNumber(n, "statistics/rx_bytes")
    [] field = "ifInUcastPkts" ->
         NumSub(FileNumber(n, "statistics/rx_packets"),
                FileNumber(n, "statistics/multicast"))
    [] field = "ifInNUcastPkts" -> FileNumber(n, "statistics/multicast")
    [] field = "ifInDiscards" ->
         NumAdd(FileNumber(n, "statistics/rx_dropped"),
                FileNumber(n, "statistics/rx_missed_errors"))
    [] field = "ifInErrors" -> FileNumber(n, "statistics/rx_errors")
    [] field = "ifInUnknownProtos" -> FileNumber(n, "statistics/rx_dropped")
    [] field = "ifOutOctets" -> FileNumber(n, "statistics/tx_bytes")
    [] field = "ifOutUcastPkts" -> FileNumber(n, "statistics/tx_packets")
    [] field = "ifOutDiscards" -> FileNumber(n, "statistics/tx_dropped")
    [] field = "ifOutErrors" -> FileNumber(n, "statistics/tx_errors")

CounterFields ==
  { "ifInOctets", "ifInUcastPkts", "ifInNUcastPkts", "ifInDiscards", "ifInErrors",
    "ifInUnknownProtos", "ifOutOctets", "ifOutUcastPkts", "ifOutDiscards",
    "ifOutErrors" }

\* C6: with non-negative integers in the statistics files, every Counter32
\* field of an interface record is an integer in 0..2^32-1, equal to the
\* quantity it reports mod 2^32 (rx_packets - multicast for ifInUcastPkts,
\* rx_dropped + rx_missed_errors for ifInDiscards).
C6_Counter32 ==
  \A c \in DOMAIN calls :
    EntryResolved(c) =>
      \A field \in CounterFields :
        /\ IsUnsigned32(calls[c].result.value[field])
        /\ calls[c].result.value[field] = Mod32(CounterQuantity(calls[c].arg, field))

\* the speed file of interface n holds a number that is not negative
SpeedNotNegative(n) ==
  /\ FileOf(n, "speed").ok
  /\ ~FileNumber(n, "speed").nan
  /\ ~FileNumber(n, "speed").neg

\* C7: ifSpeed never exceeds 2^32-1: it is min(value, 4294967295) for the
\* value of the speed file.
C7_SpeedClamped ==
  \A c \in DOMAIN calls :
    EntryResolved(c) /\ SpeedNotNegative(calls[c].arg) =>
      /\ IsUnsigned32(calls[c].result.value.ifSpeed)
      /\ calls[c].result.value.ifSpeed =
           MathMin2(FileNumber(calls[c].arg, "speed"), GAUGE_MAX)

\* the speed file of interface n cannot be read or holds a negative number
SpeedMissingOrNegative(n) ==
  \/ ~FileOf(n, "speed").ok
  \/ FileNumber(n, "speed").neg

UnreadableMandatory(n) == { f \in MandatoryFiles : ~FileOf(n, f).ok }

\* C8: when the speed file cannot be read or holds a negative value, ifSpeed
\* is 4294967295, and the record is built unless a mandatory file fails: a
\* rejection of getIfEntry is never the one of the speed file.
C8_SpeedSentinel ==
  \A c \in DOMAIN calls :
    calls[c].op = "getIfEntry" /\ calls[c].pc = "done"
      /\ SpeedMissingOrNegative(calls[c].arg) =>
        /\ calls[c].result.status = "fulfilled" =>
             calls[c].result.value.ifSpeed = GAUGE_MAX
        /\ calls[c].result.status = "rejected" =>
             calls[c].result.value \in
               { ReadError(f) : f \in UnreadableMandatory(calls[c].arg) }

\* C8, witness: the speed file is unreadable and the record has the sentinel.
C8_Witness ==
  \E c \in DOMAIN calls :
    /\ EntryResolved(c)
    /\ ~FileOf(calls[c].arg, "speed").ok
    /\ calls[c].result.value.ifSpeed = GAUGE_MAX

\* C9: when a mandatory file of the interface (mtu, address, operstate,
\* tx_queue_len, a statistics file) cannot be read, getIfEntry rejects: it
\* does not resolve with a record.
C9_MandatoryFileRejects ==
  \A c \in DOMAIN calls :
    calls[c].op = "getIfEntry" /\ calls[c].pc = "done"
      /\ UnreadableMandatory(calls[c].arg) # {} =>
        /\ calls[c].result.status = "rejected"
        /\ calls[c].result.value \in
             { ReadError(f) : f \in UnreadableMandatory(calls[c].arg) }

\* C9, witness: the mtu file is unreadable and the call has rejected.
C9_Witness ==
  \E c \in DOMAIN calls :
    /\ calls[c].op = "getIfEntry" /\ calls[c].pc = "done"
    /\ ~FileOf(calls[c].arg, "mtu").ok
    /\ calls[c].result = Rejected(ReadError("mtu"))

(***************************************************************************)
(* hexToIp4 (checked under SpecHex).                                       *)
(***************************************************************************)
\* h with zeros on its left up to 8 digits
PadLeft8(h) ==
  [ i \in 1..8 |-> IF i <= 8 - Len(h) THEN "0" ELSE h[i - (8 - Len(h))] ]

\* the value of the k-th two-digit group of an 8-digit text
OctetValue(h, k) == 16 * HexDigitValue(h[2 * k - 1]) + HexDigitValue(h[2 * k])

\* a decimal numeral without sign or leading zero, and its value
IsDecimalNumeral(t) ==
  /\ t # <<>>
  /\ \A i \in DOMAIN t : IsDecDigit(t[i])
  /\ Len(t) > 1 => t[1] # "0"

RECURSIVE DecimalValue(_)
DecimalValue(t) ==
  IF t = <<>> THEN 0
  ELSE 10 * DecimalValue(SubSeq(t, 1, Len(t) - 1)) + DecDigitValue(t[Len(t)])

\* C10: hexToIp4 maps the 8 hex digits h1h2h3h4 (four groups of two) to the
\* dotted decimal dec(h4).dec(h3).dec(h2).dec(h1); a shorter input counts as
\* padded with zeros on the left.
C10_HexToIp4 ==
  ip # <<>> /\ Len(hex) <= 8 =>
    LET parts == Split(ip, ".")
    IN  /\ Len(parts) = 4
        /\ \A k \in 1..4 :
             /\ IsDecimalNumeral(parts[k])
             /\ DecimalValue(parts[k]) = OctetValue(PadLeft8(hex), 5 - k)

\* C10, witness: 0101A8C0 has been converted to 192.168.1.1.
C10_Witness ==
  /\ hex = <<"0", "1", "0", "1", "A", "8", "C", "0">>
  /\ ip = <<"1", "9", "2", ".", "1", "6", "8", ".", "1", ".", "1">>


(***************************************************************************)
(* The /proc/net/snmp parser.                                              *)
(***************************************************************************)
IsBlank(line) == \A i \in DOMAIN line : line[i] \in WhiteSpace

\* the lines of a file that are not blank, in order
NonBlankLines(content) == SelectSeq(Split(content, "\n"), LAMBDA l : ~IsBlank(l))

\* the position of the first colon of a line, 0 without one
ColonAt(line) ==
  IF \E i \in DOMAIN line : line[i] = ":"
    THEN CHOOSE i \in DOMAIN line : line[i] = ":" /\ \A j \in 1..(i - 1) : line[j] # ":"
    ELSE 0

\* the group name a line starts with
GroupOf(line) ==
  IF ColonAt(line) = 0 THEN line ELSE SubSeq(line, 1, ColonAt(line) - 1)

\* the words of a text: its maximal runs of characters that are not blanks
RECURSIVE Words(_, _)
Words(t, word) ==
  IF t = <<>> THEN IF word = <<>> THEN <<>> ELSE << word >>
  ELSE IF Head(t) \in WhiteSpace
    THEN (IF word = <<>> THEN <<>> ELSE << word >>) \o Words(Tail(t), <<>>)
    ELSE Words(Tail(t), Append(word, Head(t)))

\* the field names of a header line, the values of a value line
ItemsOf(line) ==
  IF ColonAt(line) = 0 THEN <<>>
  ELSE Words(SubSeq(line, ColonAt(line) + 1, Len(line)), <<>>)

SnmpParsed == snmpFile.ok /\ snmpInfo # Pending

\* C11: the parser fails, and so returns no map, whenever a value line's
\* group name differs from the group name of the header line before it or
\* the number of its values differs from the number of header fields.
C11_MismatchFails ==
  SnmpParsed =>
    LET ls == NonBlankLines(snmpFile.text)
    IN  (\E k \in 1..(Len(ls) \div 2) :
           \/ GroupOf(ls[2 * k]) # GroupOf(ls[2 * k - 1])
           \/ Len(ItemsOf(ls[2 * k])) # Len(ItemsOf(ls[2 * k - 1])))
        => snmpInfo.status = "rejected"

\* a line as the kernel writes it: the group, a colon, and one or more items
\* each after one blank
IsKernelLine(line) ==
  /\ ItemsOf(line) # <<>>
  /\ line = GroupOf(line) \o <<":", " ">> \o Join(ItemsOf(line), <<" ">>)

\* header and value lines alternate, one pair per group
WellFormedSnmp(ls) ==
  /\ Len(ls) % 2 = 0
  /\ \A i \in DOMAIN ls : IsKernelLine(ls[i])
  /\ \A k \in 1..(Len(ls) \div 2) :
       /\ GroupOf(ls[2 * k]) = GroupOf(ls[2 * k - 1])
       /\ Len(ItemsOf(ls[2 * k])) = Len(ItemsOf(ls[2 * k - 1]))
       /\ \A i, j \in DOMAIN ItemsOf(ls[2 * k - 1]) :
            i # j => ItemsOf(ls[2 * k - 1])[i] # ItemsOf(ls[2 * k - 1])[j]
       /\ \A m \in 1..(Len(ls) \div 2) :
            m # k => GroupOf(ls[2 * m]) # GroupOf(ls[2 * k])

\* C12: for a well-formed file the result maps each group name to a map
\* that binds every field name of the group's header line to the value at
\* the same position of its value line, blank lines or not.
C12_WellFormedParsed ==
  SnmpParsed =>
    LET ls == NonBlankLines(snmpFile.text)
    IN  WellFormedSnmp(ls) =>
          /\ snmpInfo.status = "fulfilled"
          /\ DOMAIN snmpInfo.value = { GroupOf(ls[2 * k]) : k \in 1..(Len(ls) \div 2) }
          /\ \A k \in 1..(Len(ls) \div 2) :
               LET group == snmpInfo.value[GroupOf(ls[2 * k])]
                   names == ItemsOf(ls[2 * k - 1])
               IN  /\ DOMAIN group = Range(names)
                   /\ \A i \in DOMAIN names : group[names[i]] = ItemsOf(ls[2 * k])[i]

\* a header of two fields, an empty line, the values, the final newline
C12_Witness ==
  /\ snmpFile = Readable(Join(<< <<"I", "p", ":", " ", "A", " ", "B">>, <<>>, <<"I", "p", ":", " ", "1", " ", "2">>, <<>> >>, <<"\n">>))
  /\ snmpInfo = Fulfilled(<<"I", "p">> :> (<<"A">> :> <<"1">> @@ <<"B">> :> <<"2">>))


(***************************************************************************)
(* The identity fields.                                                    *)
(***************************************************************************)
\* what the six getters return, by the name of the field they are named for
Getters(c) ==
  [ sysDescr |-> getSysDescr(c), sysObjectID |-> getSysObjectID(c),
    sysContact |-> getSysContact(c), sysName |-> getSysName(c),
    sysLocation |-> getSysLocation(c), sysServices |-> getSysServices(c) ]

\* the getter a setter is named for
FieldOfSetter ==
  [ setSysDescr |-> "sysDescr", setSysObjectId |-> "sysObjectID",
    setSysContact |-> "sysContact", setSysName |-> "sysName",
    setSysLocation |-> "sysLocation", setSysServices |-> "sysServices" ]

PciIdOf(n, f) == RemoveFirst(Trim(FileOf(n, f).text), <<"0", "x">>)

UnknownText == <<"U", "n", "k", "n", "o", "w", "n">>

\* C13: in the description a vendor ID the lookup table does not have shows
\* as "Unknown", and so does a device ID the table does not have under its
\* vendor; a vendor and device the table has show as the names it gives.
C13_UnknownOrResolved ==
  \A c \in DOMAIN calls :
    EntryResolved(c) /\ FileOf(calls[c].arg, "device/vendor").ok
                     /\ FileOf(calls[c].arg, "device/device").ok =>
      LET vendor == PciIdOf(calls[c].arg, "device/vendor")
          device == PciIdOf(calls[c].arg, "device/device")
          descr == calls[c].result.value.ifDescr
      IN  /\ vendor \notin DOMAIN ParsedPciIds => descr.Vendor = UnknownText
          /\ vendor \in DOMAIN ParsedPciIds =>
               /\ descr.Vendor = ParsedPciIds[vendor].manufacturer
               /\ descr.Device =
                    IF device \in DOMAIN ParsedPciIds[vendor].devices
                      THEN ParsedPciIds[vendor].devices[device]
                      ELSE UnknownText


(***************************************************************************)
(* The TCP connection table and the UDP listener table.                    *)
(***************************************************************************)
\* the lines of a file after its header line that are not empty
EntryLines(file) ==
  LET lines == Split(file.text, "\n")
  IN  SelectSeq(SubSeq(lines, 2, Len(lines)), LAMBDA l : l # <<>>)

\* the state field of a line: its fourth word, after the entry number and
\* the two addresses
StateFieldOf(line) == Words(line, <<>>)[4]

\* the kernel's state codes 1 to 12 as /proc/net/tcp writes them
KernelCodeTexts ==
  << <<"0", "1">>, <<"0", "2">>, <<"0", "3">>, <<"0", "4">>, <<"0", "5">>,
     <<"0", "6">>, <<"0", "7">>, <<"0", "8">>, <<"0", "9">>, <<"0", "A">>,
     <<"0", "B">>, <<"0", "C">> >>

\* the RFC 1213 state of each kernel code: Established(5), SynSent(3),
\* SynReceived(4), FinWait1(6), FinWait2(7), TimeWait(11), Closed(1),
\* CloseWait(8), LastAck(9), Listen(2), Closing(10), NewSynReceived(99)
Rfc1213StateOfCode == << 5, 3, 4, 6, 7, 11, 1, 8, 9, 2, 10, 99 >>

TcpTableResolved ==
  /\ connCall.op = "getTcpConnTable"
  /\ connCall.pc = "done"
  /\ connCall.result.status = "fulfilled"

\* C14: the state of each connection record is the RFC 1213 value of the
\* kernel state code of its line, the code being read as hexadecimal.
C14_StateMapped ==
  TcpTableResolved =>
    LET ls == EntryLines(procNet.tcp)
    IN  \A i \in DOMAIN ls : \A k \in DOMAIN KernelCodeTexts :
          StateFieldOf(ls[i]) = KernelCodeTexts[k] =>
            connCall.result.value[i].tcpConnState = Number(Rfc1213StateOfCode[k])

\* a Listen line (code 0A) and a Closing line (code 0B)
C14_Witness ==
  /\ TcpTableResolved
  /\ procNet.tcp = ConnFile(<< TcpLine(<<"0", "A">>), TcpLine(<<"0", "B">>) >>)
  /\ connCall.result.value[1].tcpConnState = Number(2)
  /\ connCall.result.value[2].tcpConnState = Number(10)

\* C15: a line whose state code is none of the kernel's codes makes
\* getTcpConnTable fail, and no record is returned whose tcpConnState is
\* missing or outside the enumeration.
C15_UnknownStateFails ==
  connCall.op = "getTcpConnTable" /\ connCall.pc = "done" /\ procNet.tcp.ok =>
    LET ls == EntryLines(procNet.tcp)
    IN  /\ (\E i \in DOMAIN ls : StateFieldOf(ls[i]) \notin Range(KernelCodeTexts))
             => connCall.result.status = "rejected"
        /\ connCall.result.status = "fulfilled" =>
             \A i \in DOMAIN connCall.result.value :
               connCall.result.value[i].tcpConnState \in
                 { Number(v) : v \in Range(Rfc1213StateOfCode) }

ConnCallDone == connCall.op # "none" /\ connCall.pc = "done"

\* the file the call in progress has read
ConnFileRead == IF connCall.op = "getUdpTable" THEN procNet.udp ELSE procNet.tcp

\* C18: with reverse resolution the table has every row whichever lookups
\* fail: a failed lookup does not reject the call, its row just has no host
\* names, and the result is there only when no lookup is pending; without
\* reverse resolution no lookup is issued.
C18_LookupFailuresIgnored ==
  /\ (connCall.pc # "idle" /\ ~connCall.bResolve) => connCall.lookups = <<>>
  /\ (ConnCallDone /\ ConnFileRead.ok) =>
       /\ connCall.result.status = "fulfilled"
       /\ Len(connCall.result.value) = Len(EntryLines(ConnFileRead))
       /\ connCall.bResolve =>
            /\ DOMAIN connCall.lookups = DOMAIN connCall.result.value
            /\ \A i \in DOMAIN connCall.lookups :
                 /\ connCall.lookups[i] # "pending"
                 /\ connCall.lookups[i] = "fulfilled" <=>
                      RemHosts[connCall.op] \in DOMAIN connCall.result.value[i]

\* two rows, the lookup of the first failed, the one of the second did not
C18_Witness ==
  /\ ConnCallDone /\ connCall.bResolve
  /\ connCall.lookups = << "rejected", "fulfilled" >>
  /\ connCall.result.status = "fulfilled"
  /\ Len(connCall.result.value) = 2
  /\ RemHosts[connCall.op] \notin DOMAIN connCall.result.value[1]
  /\ RemHosts[connCall.op] \in DOMAIN connCall.result.value[2]


(***************************************************************************)
(* The address tables.                                                     *)
(***************************************************************************)
AddrTableDone(c) ==
  /\ calls[c].op \in { "getIpAddrTable", "getIpv6AddrTable" }
  /\ calls[c].pc = "done"

\* the interface index a row of an address table carries
AddrRowIndex(c, i) ==
  IF calls[c].op = "getIpAddrTable" THEN calls[c].result.value[i].ipAdEntIfIndex
  ELSE calls[c].result.value[i].ipv6IfIndex

\* C19: every row of getIpAddrTable and of getIpv6AddrTable carries the
\* registry index of the interface that owns its address; when an owning
\* interface has no registry entry after the enumeration, the table fails
\* with an error and no row carries a wrong or empty index.
C19_AddrRowsCarryRegistryIndex ==
  \A c \in DOMAIN calls :
    AddrTableDone(c) =>
      /\ calls[c].result.status = "fulfilled" =>
           \A i \in DOMAIN calls[c].result.value :
             /\ calls[c].addrs[i].interface \in DOMAIN ifIndexMap
             /\ AddrRowIndex(c, i) = Number(ifIndexMap[calls[c].addrs[i].interface])
      /\ (\E i \in DOMAIN calls[c].addrs :
            calls[c].addrs[i].interface \notin DOMAIN ifIndexMap)
           => calls[c].result.status = "rejected"


(***************************************************************************)
(* The IPv6 interface statistics table.                                    *)
(***************************************************************************)
StatsTableResolved(c) ==
  /\ calls[c].op = "getIpv6IfStatsTable"
  /\ calls[c].pc = "done"
  /\ calls[c].result.status = "fulfilled"

\* the name and value lines of /proc/net/dev_snmp6/<n>, each as its words
Snmp6Counters(n) ==
  LET ls == NonBlankLines(FileOf(n, "dev_snmp6").text)
  IN  [ i \in DOMAIN ls |-> Words(ls[i], <<>>) ]

\* C20: row i of getIpv6IfStatsTable is the row of the i-th enumerated
\* interface, as in the interface table; its ipv6IfIndex is the index the
\* interface-table row of that interface carries, and each of its counters
\* is the kernel's value mod 2^32.
C20_StatsRows ==
  \A c \in DOMAIN calls :
    StatsTableResolved(c) =>
      /\ DOMAIN calls[c].result.value = DOMAIN calls[c].names
      /\ \A i \in DOMAIN calls[c].names :
           LET row == calls[c].result.value[i]
               counters == Snmp6Counters(calls[c].names[i])
           IN  /\ DOMAIN row = { Ipv6IfIndexKey } \cup { counters[k][1] : k \in DOMAIN counters }
               /\ row[Ipv6IfIndexKey] = ifIndexAfterEnum(ifIndexMap, calls[c].names[i]).value
               /\ \A k \in DOMAIN counters :
                    /\ row[counters[k][1]] = Mod32(ToNumber(counters[k][2]))
                    /\ IsUnsigned32(row[counters[k][1]])

\* lo, then eth0 whose Ip6InReceives is 2^32 + 5
C20_Witness ==
  \E c \in DOMAIN calls :
    /\ StatsTableResolved(c)
    /\ calls[c].names = << "lo", "eth0" >>
    /\ sysfs = NoEdits
    /\ calls[c].result.value[1][Ipv6IfIndexKey] = Number(1)
    /\ calls[c].result.value[2][Ipv6IfIndexKey] = Number(2)
    /\ calls[c].result.value[1][<<"I", "p", "6", "I", "n", "R", "e", "c", "e", "i", "v", "e", "s">>] = NumOfSmall(7)
    /\ calls[c].result.value[2][<<"I", "p", "6", "I", "n", "R", "e", "c", "e", "i", "v", "e", "s">>] = NumOfSmall(5)


(***************************************************************************)
(* A table accessor called twice.                                          *)
(***************************************************************************)
\* the outcomes of the second calls that follow a kept first call of the
\* same accessor with the same argument, the kernel's state being the same
\* throughout both
SecondOutcomes ==
  { calls[c].result : c \in { d \in DOMAIN calls :
        calls[d].pc = "done" /\ calls[d].op = prev.op } }
  \cup (IF connCall.pc = "done" /\ connCall.op = prev.op
             /\ connCall.bResolve = prev.bResolve
          THEN { connCall.result } ELSE {})

\* an entry without the host names a reverse lookup stored in it
WithoutRemHosts(entry) ==
  [ k \in DOMAIN entry \ { "tcpConnRemHosts", "udpRemHosts" } |-> entry[k] ]

WithoutLookups(outcome) ==
  IF outcome.status # "fulfilled" THEN outcome
  ELSE Fulfilled([ i \in DOMAIN outcome.value |->
                     IF DOMAIN outcome.value[i] \cap { "tcpConnRemHosts", "udpRemHosts" } = {}
                       THEN outcome.value[i]
                       ELSE WithoutRemHosts(outcome.value[i]) ])

C21_ParsedAtMostOnce == parses <= 1

\* once pciIds is there, no call that starts parses it again
C21_NoParseOnceLoaded ==
  [][pciIds.loaded => parses' = parses]_vars


\* the indices the registry has given out
AssignedIndices == { ifIndexMap[n] : n \in DOMAIN ifIndexMap }

\* no index is consumed twice and none is left out: the indices given out
\* are those below nextIfIndex, one name each
IndicesConsumedOnce ==
  /\ \A a, b \in DOMAIN ifIndexMap : a # b => ifIndexMap[a] # ifIndexMap[b]
  /\ AssignedIndices = 1..(nextIfIndex - 1)

\* C27: under every interleaving of overlapping enumerations each name that
\* an enumeration has met has exactly one index, no index is consumed twice,
\* and the indices given out are exactly 1..nextIfIndex-1.
C27_OneIndexPerName ==
  /\ \A k \in DOMAIN seenOrder : seenOrder[k] \in DOMAIN ifIndexMap
  /\ IndicesConsumedOnce



(***************************************************************************)
(* ifIndex and ifNumber.                                                   *)
(***************************************************************************)
\* what getIfNumber returns in this state: the length of the listing
\* (src/core.js:230)
IfNumberNow == Len(netdir)

\* C22: interfaces being added and removed between calls only, getIfTable
\* returns as many rows as getIfNumber returns in the same state, and the
\* ifIndex of each row lies between 1 and that number.
C22_IfIndexWithinIfNumber ==
  \A c \in DOMAIN calls :
    TableResolved(c) =>
      LET rows == calls[c].result.value
      IN  /\ Len(rows) = IfNumberNow
          /\ \A i \in DOMAIN rows :
               /\ rows[i].ifIndex.kind = "number"
               /\ rows[i].ifIndex.n \in 1..IfNumberNow



(***************************************************************************)
(* The route table.                                                        *)
(***************************************************************************)
\* C23: when /proc/net/route has been read, getIpRouteTable has one record
\* per line after the first that is not empty, in file order, and the
\* interfaceIndex of each record is a positive integer, the registry index
\* of the interface the line names, whether or not the enumeration before
\* the read listed that interface.
C23_RouteRows ==
  [][ \A c \in DOMAIN calls :
        (calls[c].pc = "readroute" /\ calls'[c].pc = "done") =>
          LET rows == calls'[c].result.value
          IN  /\ calls'[c].result.status = "fulfilled"
              /\ Len(rows) = Len(netdir)
              /\ \A i \in DOMAIN rows :
                   /\ rows[i].interface = IfNameText[netdir[i]]
                   /\ rows[i].interfaceIndex.kind = "number"
                   /\ rows[i].interfaceIndex.n > 0
                   /\ netdir[i] \in DOMAIN ifIndexMap
                   /\ rows[i].interfaceIndex.n = ifIndexMap[netdir[i]] ]_vars



(***************************************************************************)
(* A table whose rows are built from the files of each interface.          *)
(***************************************************************************)
\* the enumerated interfaces of a call that have a file the row needs and
\* that cannot be read
FailingInterfaces(c) ==
  { i \in DOMAIN calls[c].names :
      IF calls[c].op = "getIfTable" THEN UnreadableMandatory(calls[c].names[i]) # {}
      ELSE ~Snmp6FileOf(calls[c].names[i]).ok }

IcmpLinesOf(file) ==
  IF ~file.ok THEN <<>>
  ELSE SelectSeq(NonBlankLines(file.text), LAMBDA l : GroupOf(l) = IcmpText)

\* the k-th smallest element of a set of numbers
NthOf(S, k) == CHOOSE x \in S : Cardinality({ y \in S : y < x }) = k - 1

\* the items of a line as the kernel writes it, each after one blank
KernelItems(line) ==
  LET t == SubSeq(line, ColonAt(line) + 2, Len(line))
      blanks == { 0, Len(t) + 1 } \cup { i \in DOMAIN t : t[i] = " " }
  IN  [ k \in 1..(Cardinality(blanks) - 1) |->
          SubSeq(t, NthOf(blanks, k) + 1, NthOf(blanks, k + 1) - 1) ]

\* C28: when the header line of the Icmp group lists the field of an
\* accessor getIcmp<Field>, the accessor returns the value at the field's
\* position of the value line, mod 2^32, a number in 0..2^32-1.
C28_IcmpFieldMod32 ==
  LET ls == IcmpLinesOf(snmpFile)
  IN  (icmpCall # NoIcmpCall /\ Len(ls) = 2) =>
        LET names == KernelItems(ls[1])
            values == KernelItems(ls[2])
        IN  \A i \in DOMAIN names :
              names[i] = icmpCall.field =>
                /\ icmpCall.result.status = "fulfilled"
                /\ icmpCall.result.value = Mod32(ToNumber(values[i]))
                /\ IsUnsigned32(icmpCall.result.value)



(***************************************************************************)
(* ipAdEntBcastAddr.                                                       *)
(***************************************************************************)
\* the last octet of the address with its low 32 - p bits set
BroadcastLastOctet(last, p) ==
  IF 32 - p >= 8 THEN 255
  ELSE (last \div (2 ^ (32 - p))) * (2 ^ (32 - p)) + (2 ^ (32 - p)) - 1

\* C30: for an IPv4 address with prefix length p in 0..32, ipAdEntBcastAddr
\* is the lowest bit of the address with its low 32 - p bits set to 1: it is
\* 1 when p < 32 and the lowest bit of the address when p = 32.
C30_BcastLowBit ==
  bcastCall.result # -1 =>
    /\ bcastCall.result = BroadcastLastOctet(bcastCall.octets[4], bcastCall.prefix) % 2
    /\ bcastCall.prefix < 32 => bcastCall.result = 1
    /\ bcastCall.prefix = 32 => bcastCall.result = bcastCall.octets[4] % 2

\* C30, witness: 192.168.1.254/32 gives 0
C30_Witness ==
  /\ bcastCall.octets = << 192, 168, 1, 254 >>
  /\ bcastCall.prefix = 32
  /\ bcastCall.result = 0



(***************************************************************************)
(* The address translation table.                                          *)
(***************************************************************************)
\* the IPv4 addresses of the interfaces other than "lo", as <<k, i>>: the
\* i-th address of the k-th listed interface
HwCandidates ==
  { ki \in (DOMAIN netdir) \X (1..3) :
      /\ ki[2] \in DOMAIN AddressesOf(netdir[ki[1]])
      /\ netdir[ki[1]] # "lo"
      /\ AddressesOf(netdir[ki[1]])[ki[2]].family = "IPv4" }

MacOf(ki) == AddressesOf(netdir[ki[1]])[ki[2]].mac

\* the one enumerated last among the candidates with a hardware address
LastWithMac(mac) ==
  CHOOSE ki \in HwCandidates :
    /\ MacOf(ki) = mac
    /\ \A o \in HwCandidates :
         MacOf(o) = mac =>
           o[1] < ki[1] \/ (o[1] = ki[1] /\ o[2] <= ki[2])

\* C29: the interfaces not changing during the call, getIpNetToMediaTable
\* returns one row per distinct hardware address of the IPv4 addresses of
\* the interfaces other than "lo"; the row has the address enumerated last
\* for its hardware address, the registry index of that address's
\* interface, and the type 1.
C29_OneRowPerHwAddr ==
  \A c \in DOMAIN calls :
    calls[c].op = "getIpNetToMediaTable" /\ calls[c].pc = "done" =>
      /\ calls[c].result.status = "fulfilled"
      /\ LET rows == calls[c].result.value
         IN  /\ Len(rows) = Cardinality({ MacOf(ki) : ki \in HwCandidates })
             /\ \A i, j \in DOMAIN rows :
                  i # j => rows[i].ipNetToMediaPhysAddress # rows[j].ipNetToMediaPhysAddress
             /\ \A i \in DOMAIN rows :
                  /\ rows[i].ipNetToMediaPhysAddress \in { MacOf(ki) : ki \in HwCandidates }
                  /\ LET ki == LastWithMac(rows[i].ipNetToMediaPhysAddress)
                         owner == netdir[ki[1]]
                     IN  /\ owner # "lo"
                         /\ rows[i].ipNetToMediaNetAddress =
                              AddressesOf(owner)[ki[2]].address
                         /\ owner \in DOMAIN ifIndexMap
                         /\ rows[i].ipNetToMediaIfIndex = Number(ifIndexMap[owner])
                  /\ rows[i].ipNetToMediaType = 1



(***************************************************************************)
(* The fills of ifTable.                                                   *)
(***************************************************************************)
RowsOfEntries(entries) == { IfTableRow(entries[i]) : i \in DOMAIN entries }

C26_OverlappingFills ==
  ( /\ mib.last.kind # "none"
    /\ mib.last.fulfilled
    /\ ~mib.last.alone
    /\ FillInProgress = {} ) =>
      /\ mib.rows = RowsOfEntries(mib.last.entries)
      /\ Cardinality(mib.rows) = Len(mib.last.entries)

=============================================================================
